---- MODULE Spec2Model ----
(***************************************************************************)
(* A model of the asynchronous DYK insight pipeline (enochgenie/dyk):      *)
(*   - RateLimiter            src/src/core/llm_client.py                   *)
(*   - OpenRouterClient       src/src/core/llm_client.py                   *)
(*   - CreativeRewriter, InsightEvaluator, InsightGenerator (stage workers)*)
(*   - DYKPipeline.run_async  src/src/pipeline.py                          *)
(*                                                                         *)
(* All coroutines run on one asyncio event loop: the code between two      *)
(* awaits runs without interleaving, so every action below is the code     *)
(* from one suspension point to the next.                                  *)
(***************************************************************************)
EXTENDS Integers, Sequences, FiniteSets, TLC

(***************************************************************************)
(* Bounds of the model.                                                    *)
(***************************************************************************)
\* concurrent callers of RateLimiter.acquire()
NumCallers == 2
\* acquire() calls made in a run, over all callers
MaxCalls == 3
\* largest configured requests_per_second
MaxPerSecond == 2
\* largest configured requests_per_minute
MaxPerMinute == 2

\* tasks of one stage worker, each with its generate() call
NumGenCalls == 3
\* concurrent generate() calls of the client on its own
NumClientCalls == 2
\* largest configured max_retries (the default is 3, llm_client.py:56)
MaxRetries == 3

\* cohorts and insight templates of the loaded configuration
NumCohorts == 3
NumTemplates == 1
\* longest list ("insights", "variations") a completion holds
MaxItems == 1
\* the semaphore sizes the pipeline is constructed with
\* run_async(num_variations=...): the variations asked for per insight
num_variations == 1
max_concurrent_generations == 2
max_concurrent_creative == 2
max_concurrent_evaluations == 2

\* runs that share one market and output directory
NumRuns == 3
\* the instants of a run, in ticks, and the ticks that make up one second
MaxClock == 3
TicksPerSecond == 2

\* insights in a batch handed to the deduplicator
MaxInsights == 3
\* the default weights 0.4, 0.4 and 0.2, in the unit weights are counted in
\* (0.2); the weight 1.0 in that unit
DefaultHook == 2
DefaultAction == 2
DefaultExplanation == 1
WeightUnit == DefaultHook + DefaultAction + DefaultExplanation
\* the cosine 1.0 in the unit cosines are counted in; the largest weight and
\* the largest negative weight tried
CosUnit == 1
MaxWeight == 3
NegWeight == 1

\* the levels above 0 at which the jitter of a backoff is tried, the last
\* being half the base wait
JitterSteps == 2
\* the parts of a second wait times are counted in
WaitUnit == 2 * JitterSteps

Callers == 1..NumCallers
GenCalls == 1..NumGenCalls
ClientCalls == 1..NumClientCalls

(***************************************************************************)
(* Time.  time.time() is read in whole seconds; a window entry t is kept   *)
(* as its age now - t, which is all the code ever uses of it               *)
(* (llm_client.py:31-32).                                                  *)
(***************************************************************************)
SecondSpan == 1
MinuteSpan == 60

VARIABLES
  requests_per_second,   \* RateLimiter.requests_per_second
  requests_per_minute,   \* RateLimiter.requests_per_minute
  minute_window,         \* RateLimiter.minute_window, as ages, oldest first
  second_window,         \* RateLimiter.second_window, as ages, oldest first
  rl_pc,                 \* position of each caller in acquire()
  rl_calls,              \* acquire() calls made so far
  lock,                  \* RateLimiter.lock: the caller inside `async with`
  admitted               \* history: ages of the admissions of the last minute

rlvars == <<requests_per_second, requests_per_minute, minute_window,
            second_window, rl_pc, rl_calls, lock, admitted>>

VARIABLES
  max_retries,           \* OpenRouterClient.max_retries
  session,               \* OpenRouterClient._session: "none", "open", "closed"
  total_requests,        \* OpenRouterClient.total_requests
  successful_requests,   \* OpenRouterClient.successful_requests
  failed_requests,       \* OpenRouterClient.failed_requests
  gen_pc,                \* position of each generate() call
  attempt,               \* loop variable `attempt` of each call
  gen_result,            \* what each call returned or raised
  posts,                 \* history: POSTs issued by each call
  sleeps,                \* history: backoff sleeps taken by each call
  wait_time,             \* wait_time of the sleep each call is in, else 0
  last_outcome,          \* history: outcome of the latest POST of each call
  post_on                \* history: the session as the latest POST was issued

clvars == <<max_retries, session, total_requests, successful_requests,
            failed_requests, gen_pc, attempt, gen_result, posts, sleeps, wait_time,
            last_outcome, post_on>>

VARIABLES
  pl_pc,                 \* position of run_async
  stats,                 \* DYKPipeline.stats
  semaphore,             \* the semaphore of each stage worker, once constructed
  sessions,              \* the _session of each stage's OpenRouterClient
  task_pc,               \* per stage, the position of each task handed to gather
  task_out,              \* per stage, what each task returned or raised
  settle_order,          \* per stage, the tasks in the order they finished
  all_insights,          \* run_async: all_insights
  unique_insights,       \* run_async: unique_insights
  all_variations,        \* run_async: all_variations
  evaluated_insights     \* run_async: evaluated_insights

plvars == <<pl_pc, stats, semaphore, sessions, task_pc, task_out, settle_order,
            all_insights, unique_insights, all_variations, evaluated_insights>>

VARIABLES
  files,                 \* the output directory: what each artifact name holds
  clock,                 \* datetime.now(), in ticks
  run_pc,                \* position of each run that shares the directory
  run_file               \* history: the artifact name each run wrote to

fsvars == <<files, clock, run_pc, run_file>>

VARIABLES
  dd_pc,                 \* position of the deduplication of one batch
  dd_n,                  \* len(InsightDeduplicator.insights)
  weights,               \* InsightDeduplicator.weights
  cosines,               \* cosine_similarity of the embeddings, per component
  similarity_matrix,     \* InsightDeduplicator._similarity_matrix
  threshold,             \* the similarity threshold in use
  clusters,              \* the connected components found
  unique_indices,        \* sorted(unique_indices): the survivors
  dd_results,            \* InsightDeduplicator._results
  dd_raised,             \* what the last call on the deduplicator raised
  dd_analyzed,           \* history: an analyze() call has returned
  greedy_runs,           \* history: the order and kept_indices of each greedy run
  overall_stats          \* overall_stats and duplicate_counts of analyze()

ddvars == <<dd_pc, dd_n, weights, cosines, similarity_matrix, threshold,
            clusters, unique_indices, dd_results, dd_raised,
            dd_analyzed, greedy_runs, overall_stats>>

VARIABLES
  sl_stage,              \* the stage run_async is in
  sl_limiter,            \* the rate_limiter of each stage's OpenRouterClient
  sl_windows,            \* minute_window and second_window of every RateLimiter
  sl_calls,              \* generate() calls made so far
  sl_backoff,            \* the generate() calls that sleep before a retry
  sl_admitted,           \* history: the admissions of the last minute
  sl_posts,              \* history: the POSTs of the last minute
  sl_clock               \* history: seconds since run_async began

slvars == <<sl_stage, sl_limiter, sl_windows, sl_calls, sl_backoff,
            sl_admitted, sl_posts, sl_clock>>

VARIABLES
  js_pc,                 \* position of _parse_json_response
  js_response,           \* its argument, then `response` as it is rewritten
  js_error,              \* the JSONDecodeError `e` of the first parse
  js_repaired,           \* `repaired`
  js_result,             \* what the call returned or raised
  js_parses,             \* history: json.loads calls made
  js_repairs             \* history: _attempt_json_repair calls made

jsvars == <<js_pc, js_response, js_error, js_repaired, js_result, js_parses,
            js_repairs>>

vars == <<rlvars, clvars, plvars, fsvars, ddvars, slvars, jsvars>>

(***************************************************************************)
(* RateLimiter                                                             *)
(***************************************************************************)
\* a window that is never pruned
PruneNothing(window, span) == window

\* [t for t in window if now - t < span]
Prune(window, span) == SelectSeq(window, LAMBDA age : age < span)

\* len(minute_window) < requests_per_minute and len(second_window) < requests_per_second
CanProceedOffByOne(mw, sw, perMinute, perSecond) ==
  Len(mw) <= perMinute /\ Len(sw) <= perSecond

CanProceed(mw, sw, perMinute, perSecond) ==
  Len(mw) < perMinute /\ Len(sw) < perSecond

\* every entry one second older; an age stops growing at span, where the entry
\* has left the window whatever its exact age
Older(window, span) == [i \in 1..Len(window) |->
                          IF window[i] < span THEN window[i] + 1 ELSE span]

\* RateLimiter.__init__ with caps drawn from the given sets
\* asyncio.Lock() as constructed: no caller is inside `async with self.lock`
NoHolder == 0

\* the lock held on through the sleep of the caller that found no capacity
LockKeptAsleep(c, proceeds) == IF proceeds THEN NoHolder ELSE c

\* the lock when a pass of caller c ends: `async with self.lock` (lines
\* 28-43) is left both by the return at line 43 and by falling out of the
\* block to the sleep at line 45
LockAfter(c, proceeds) == NoHolder

RateLimiterInit(perSecond, perMinute) ==
  /\ requests_per_second \in perSecond
  /\ requests_per_minute \in perMinute
  /\ minute_window = <<>>
  /\ second_window = <<>>
  /\ rl_pc = [c \in Callers |-> "idle"]
  /\ rl_calls = 0
  /\ lock = NoHolder
  /\ admitted = <<>>

\* One pass of the loop body, lines 27-45: under the lock prune both windows,
\* check the caps, and either record `now` and return or leave the lock and
\* go to sleep.  Nothing awaits inside the lock, so the lock is free whenever
\* a task runs and the pass is one step of the event loop.
AcquirePass(c) ==
  LET mw == Prune(minute_window, MinuteSpan)
      sw == Prune(second_window, SecondSpan)
      proceeds == CanProceed(mw, sw, requests_per_minute, requests_per_second)
  IN /\ lock = NoHolder
     /\ lock' = LockAfter(c, proceeds)
     /\ IF proceeds
        THEN /\ minute_window' = Append(mw, 0)
             /\ second_window' = Append(sw, 0)
             /\ admitted' = Append(admitted, 0)
             /\ rl_pc' = [rl_pc EXCEPT ![c] = "admitted"]
        ELSE /\ minute_window' = mw
             /\ second_window' = sw
             /\ admitted' = admitted
             /\ rl_pc' = [rl_pc EXCEPT ![c] = "sleep"]

\* a task calls acquire(): the first pass runs at once
AcquireCall(c) ==
  /\ rl_pc[c] \in {"idle", "admitted"}
  /\ rl_calls < MaxCalls
  /\ rl_calls' = rl_calls + 1
  /\ AcquirePass(c)
  /\ UNCHANGED <<requests_per_second, requests_per_minute, clvars, plvars, fsvars, ddvars, slvars, jsvars>>

\* asyncio.sleep(0.1) is over: the next pass of the loop
AcquireWake(c) ==
  /\ rl_pc[c] = "sleep"
  /\ AcquirePass(c)
  /\ UNCHANGED <<requests_per_second, requests_per_minute, rl_calls, clvars,
                 plvars, fsvars, ddvars, slvars, jsvars>>

\* one second passes
Tick ==
  /\ minute_window' = Older(minute_window, MinuteSpan)
  /\ second_window' = Older(second_window, SecondSpan)
  /\ admitted' = Prune(Older(admitted, MinuteSpan), MinuteSpan)
  /\ UNCHANGED <<requests_per_second, requests_per_minute, rl_pc, rl_calls,
                 lock, clvars, plvars, fsvars, ddvars, slvars, jsvars>>

(***************************************************************************)
(* OpenRouterClient                                                        *)
(***************************************************************************)
\* What one POST attempt (lines 127-136) can end in: an HTTP status, with the
\* shape of the body for a 200, or an exception raised below HTTP.
\*   <<200, "choices">>     a completion
\*   <<200, "no_choices">>  a JSON body without choices[0].message.content
\*   <<404, "">> <<429, "">> <<500, "">>   raise_for_status() raises
\*   <<0, "timeout">>       asyncio.TimeoutError, connection reset, ...
\*   <<0, "session_closed">>  RuntimeError: post() was called on a closed
\*                          session, nothing was sent
SessionClosed == <<0, "session_closed">>

Outcomes == {<<200, "choices">>, <<200, "no_choices">>, <<404, "">>,
             <<429, "">>, <<500, "">>, <<0, "timeout">>, SessionClosed}

NoOutcome == <<0, "">>

\* isinstance(e, aiohttp.ClientResponseError): raise_for_status() raised it
IsResponseError(o) == o[1] >= 400

NoClientErrorCheck(o) == FALSE

IsClientError(o) == IsResponseError(o) /\ 400 <= o[1] /\ o[1] < 500 /\ o[1] # 429

\* attempt < self.max_retries - 1
MayRetryOneMore(a, maxRetries) == a < maxRetries

MayRetry(a, maxRetries) == a < maxRetries - 1

\* OpenRouterClient.__init__ with max_retries drawn from the given set
ClientInit(retries) ==
  /\ max_retries \in retries
  /\ session = "none"
  /\ total_requests = 0
  /\ successful_requests = 0
  /\ failed_requests = 0
  /\ gen_pc = [g \in GenCalls |-> "idle"]
  /\ attempt = [g \in GenCalls |-> 0]
  /\ gen_result = [g \in GenCalls |-> <<"pending">>]
  /\ posts = [g \in GenCalls |-> 0]
  /\ sleeps = [g \in GenCalls |-> 0]
  /\ wait_time = [g \in GenCalls |-> 0]
  /\ last_outcome = [g \in GenCalls |-> NoOutcome]
  /\ post_on = [g \in GenCalls |-> "none"]

\* __aenter__
ClientEnter ==
  /\ session = "none"
  /\ session' = "open"
  /\ UNCHANGED <<max_retries, total_requests, successful_requests,
                 failed_requests, gen_pc, attempt, gen_result, posts, sleeps,
                 wait_time, last_outcome, post_on, rlvars, plvars, fsvars, ddvars, slvars, jsvars>>

\* __aexit__: the session is closed, the attribute keeps referring to it
ClientExit ==
  /\ session = "open"
  /\ session' = "closed"
  /\ UNCHANGED <<max_retries, total_requests, successful_requests,
                 failed_requests, gen_pc, attempt, gen_result, posts, sleeps,
                 wait_time, last_outcome, post_on, rlvars, plvars, fsvars, ddvars, slvars, jsvars>>

\* The top of the retry loop for call g with loop index a: count the request
\* and issue the POST (lines 123-132); with the range used up the function
\* falls off its end.
StartAttempt(g, a) ==
  IF a < max_retries
  THEN /\ total_requests' = total_requests + 1
       /\ gen_pc' = [gen_pc EXCEPT ![g] = "post"]
       /\ attempt' = [attempt EXCEPT ![g] = a]
       /\ posts' = [posts EXCEPT ![g] = @ + 1]
       /\ post_on' = [post_on EXCEPT ![g] = session]
       /\ gen_result' = gen_result
  ELSE /\ total_requests' = total_requests
       /\ gen_pc' = [gen_pc EXCEPT ![g] = "returned"]
       /\ attempt' = attempt
       /\ posts' = posts
       /\ post_on' = post_on
       /\ gen_result' = [gen_result EXCEPT ![g] = <<"None">>]

\* generate() is called: the session check, then await rate_limiter.acquire()
CallGenerate(g) ==
  /\ gen_pc[g] = "idle"
  /\ IF session = "none"
     THEN /\ gen_pc' = [gen_pc EXCEPT ![g] = "raised"]
          /\ gen_result' = [gen_result EXCEPT ![g] = <<"RuntimeError">>]
     ELSE /\ gen_pc' = [gen_pc EXCEPT ![g] = "acquire"]
          /\ gen_result' = gen_result
  /\ UNCHANGED <<max_retries, session, total_requests, successful_requests,
                 failed_requests, attempt, posts, sleeps, wait_time,
                 last_outcome, post_on>>

GenerateCall(g) == CallGenerate(g) /\ UNCHANGED <<rlvars, plvars, fsvars, ddvars, slvars, jsvars>>

\* acquire() has returned: headers and data are built and the loop is entered
GenerateAdmitted(g) ==
  /\ gen_pc[g] = "acquire"
  /\ StartAttempt(g, 0)
  /\ UNCHANGED <<max_retries, session, successful_requests, failed_requests,
                 sleeps, wait_time, last_outcome, rlvars, plvars, fsvars, ddvars, slvars, jsvars>>

\* the base of the wait that does not grow with the attempt
BaseWaitFlat(a) == 1

\* line 148: base_wait = 2**attempt
RECURSIVE BaseWait(_)
BaseWait(a) == IF a = 0 THEN 1 ELSE 2 * BaseWait(a - 1)

\* lines 148-150: wait_time = base_wait + jitter in units of 1/WaitUnit
\* second, the jitter random.uniform(0, 0.5 * base_wait) being j parts out
\* of JitterSteps of half the base
WaitTime(a, j) == WaitUnit * BaseWait(a) + j * BaseWait(a)

\* the POST of call g ends in outcome o, and the generator draws jitter j
\* where the call goes on to sleep (line 149): lines 133-157
PostDone(g, o, j) ==
  /\ gen_pc[g] = "post"
  /\ (o = SessionClosed) <=> (post_on[g] = "closed")
  /\ j # 0 => /\ o # <<200, "choices">>
              /\ ~IsClientError(o)
              /\ MayRetry(attempt[g], max_retries)
  /\ wait_time' =
       IF /\ o # <<200, "choices">>
          /\ ~IsClientError(o)
          /\ MayRetry(attempt[g], max_retries)
       THEN [wait_time EXCEPT ![g] = WaitTime(attempt[g], j)]
       ELSE wait_time
  /\ last_outcome' = [last_outcome EXCEPT ![g] = o]
  /\ IF o = <<200, "choices">>
     THEN \* lines 133-136
          /\ successful_requests' = successful_requests + 1
          /\ failed_requests' = failed_requests
          /\ gen_pc' = [gen_pc EXCEPT ![g] = "returned"]
          /\ gen_result' = [gen_result EXCEPT ![g] = <<"text", attempt[g]>>]
          /\ sleeps' = sleeps
     ELSE \* line 135 has run when the body was parsed and the lookup raises
          /\ successful_requests' =
               IF o = <<200, "no_choices">> THEN successful_requests + 1
                                            ELSE successful_requests
          /\ failed_requests' = failed_requests + 1
          /\ IF IsClientError(o)
             THEN /\ gen_pc' = [gen_pc EXCEPT ![g] = "raised"]
                  /\ gen_result' = [gen_result EXCEPT ![g] = <<"Client error", o>>]
                  /\ sleeps' = sleeps
             ELSE IF MayRetry(attempt[g], max_retries)
             THEN /\ gen_pc' = [gen_pc EXCEPT ![g] = "backoff"]
                  /\ gen_result' = gen_result
                  /\ sleeps' = [sleeps EXCEPT ![g] = @ + 1]
             ELSE /\ gen_pc' = [gen_pc EXCEPT ![g] = "raised"]
                  /\ gen_result' = [gen_result EXCEPT
                                      ![g] = <<"Failed after", max_retries, o>>]
                  /\ sleeps' = sleeps
  /\ UNCHANGED <<max_retries, session, total_requests, attempt, posts,
                 post_on, rlvars, plvars, fsvars, ddvars, slvars, jsvars>>

\* asyncio.sleep(wait_time) is over: the next iteration of the loop
BackoffDone(g) ==
  /\ gen_pc[g] = "backoff"
  /\ StartAttempt(g, attempt[g] + 1)
  /\ wait_time' = [wait_time EXCEPT ![g] = 0]
  /\ UNCHANGED <<max_retries, session, successful_requests, failed_requests,
                 sleeps, last_outcome, rlvars, plvars, fsvars, ddvars, slvars, jsvars>>

(***************************************************************************)
(* Stage workers and DYKPipeline.run_async                                 *)
(*                                                                         *)
(* pipeline.py constructs its generator as                                 *)
(*   InsightGenerator(llm_client, prompt_template, max_concurrent)         *)
(* and awaits generator.generate(..., market=...).  The InsightGenerator   *)
(* of src/core/insight_generator.py takes (llm_client, evidence_retriever, *)
(* prompt_template), holds no semaphore and is not a coroutine: with it    *)
(* the run ends in a TypeError at pipeline.py:172 (RunStartRejected).  The *)
(* asynchronous worker run_async is written against is not in the sources; *)
(* it is modelled after section 4.4 of the specification (RunStart,        *)
(* GenerationEnter, GenerationSettle) so that the stages behind it can be  *)
(* reached.                                                                *)
(***************************************************************************)
Stages == {"generation", "creative", "evaluation"}

NoSemaphore == -1

\* self.max_concurrent_generations / _creative / _evaluations
MaxConcurrent(stage) ==
  CASE stage = "generation" -> max_concurrent_generations
    [] stage = "creative"   -> max_concurrent_creative
    [] stage = "evaluation" -> max_concurrent_evaluations

\* task_metadata: one entry per cohort x template, cohorts in the outer loop
TaskMetadata ==
  [i \in 1..(NumCohorts * NumTemplates) |->
     [cohort |-> ((i - 1) \div NumTemplates) + 1,
      insight_template |-> ((i - 1) % NumTemplates) + 1]]

\* What a stage task hands to gather.  `task` is the task that produced it,
\* `n` the length of the list it holds.
\*   exception  the task raised: generate() failed, or the parse did, or
\*              results["variations"] did
\*   list       generation: {"insights": [n objects]}; creative: the insight
\*              copy with "variations": [n objects]
\*   bad_list   as list, but the value under the key is no list of objects
\*   criteria   evaluation: an object with a "criteria" key
\*   array      generation: a bare JSON array of n objects
\*   other      any other parsed value: an object without the key, a scalar
Outcome(kind, n, k) == [kind |-> kind, n |-> n, task |-> k]

NoOutcome3 == Outcome("none", 0, 0)

OutcomesOf(stage, k) ==
  CASE stage = "generation" ->
         {Outcome("exception", 0, k), Outcome("other", 0, k),
          Outcome("bad_list", 0, k)} \cup
         {Outcome("list", n, k) : n \in 0..MaxItems} \cup
         {Outcome("array", n, k) : n \in 1..MaxItems}
    [] stage = "creative" ->
         {Outcome("exception", 0, k), Outcome("bad_list", 0, k)} \cup
         {Outcome("list", n, k) : n \in 0..MaxItems}
    [] stage = "evaluation" ->
         {Outcome("exception", 0, k), Outcome("criteria", 0, k),
          Outcome("other", 0, k)}

\* asyncio.Semaphore: __aenter__ passes while the value is positive
SemaphoreFree(value) == value > 0

\* asyncio.Semaphore: __aexit__ gives the permit back, whatever left the block
SemaphoreExitOnSuccess(value, kind) ==
  IF kind = "exception" THEN value ELSE value + 1

SemaphoreExit(value, kind) == value + 1

\* asyncio.gather(*tasks, return_exceptions=True): the outcomes in the order
\* the tasks were passed in
GatherInArrivalOrder(outs, order) == [i \in 1..Len(outs) |-> outs[order[i]]]

Gather(outs, order) == [i \in 1..Len(outs) |-> outs[i]]

\* a stage never has more tasks than this
TaskIds == 1..(NumCohorts * NumTemplates * MaxItems * MaxItems)

Pending(n) == [i \in 1..n |-> "pending"]
NoOutcomes(n) == [i \in 1..n |-> NoOutcome3]

\* a wait that ends with the first finished task
AnyDone(stage) == \E i \in 1..Len(task_pc[stage]) : task_pc[stage][i] = "done"

\* await asyncio.gather(*tasks, ...) returns when every task has finished
AllDone(stage) == \A i \in 1..Len(task_pc[stage]) : task_pc[stage][i] = "done"

\* tasks of the stage that are inside `async with self.semaphore`
InBody(stage) ==
  Cardinality({i \in 1..Len(task_pc[stage]) : task_pc[stage][i] = "body"})

\* number of results of the given kinds among the first m
RECURSIVE CountKinds(_, _, _)
CountKinds(results, kinds, m) ==
  IF m = 0 THEN 0
  ELSE CountKinds(results, kinds, m - 1)
       + (IF results[m].kind \in kinds THEN 1 ELSE 0)

\* index of the first result whose list cannot be walked, 0 when there is none
FirstBad(results) ==
  IF \E i \in 1..Len(results) : results[i].kind = "bad_list"
  THEN CHOOSE i \in 1..Len(results) :
         /\ results[i].kind = "bad_list"
         /\ \A j \in 1..(i - 1) : results[j].kind # "bad_list"
  ELSE 0

\* results the loop gets through: all of them, or those up to the one it dies on
Walked(results) ==
  IF FirstBad(results) = 0 THEN Len(results) ELSE FirstBad(results)

PipelineInit ==
  /\ pl_pc = "start"
  /\ stats = [generation_attempts |-> 0, generation_successes |-> 0,
              generation_failures |-> 0, total_insights_generated |-> 0,
              unique_insights_after_dedup |-> 0,
              creative_attempts |-> 0, creative_successes |-> 0,
              creative_failures |-> 0, total_variations_created |-> 0,
              evaluation_attempts |-> 0, evaluation_successes |-> 0,
              evaluation_failures |-> 0, final_insights |-> 0]
  /\ semaphore = [s \in Stages |-> NoSemaphore]
  /\ sessions = [s \in Stages |-> "none"]
  /\ task_pc = [s \in Stages |-> <<>>]
  /\ task_out = [s \in Stages |-> <<>>]
  /\ settle_order = [s \in Stages |-> <<>>]
  /\ all_insights = <<>>
  /\ unique_insights = <<>>
  /\ all_variations = <<>>
  /\ evaluated_insights = <<>>

\* an `async with` that leaves the session as it is
ScopeLeft(ss, stage) == ss

\* llm_client.py:76-78, __aenter__ of the client of a stage
ScopeEnter(ss, stage) == [ss EXCEPT ![stage] = "open"]

\* llm_client.py:80-82, __aexit__ of the client of a stage
ScopeExit(ss, stage) ==
  [ss EXCEPT ![stage] = IF @ = "none" THEN "none" ELSE "closed"]

\* the worker of a stage is constructed and its tasks are handed to gather
Launch(stage, n) ==
  /\ semaphore' = [semaphore EXCEPT ![stage] = MaxConcurrent(stage)]
  /\ task_pc' = [task_pc EXCEPT ![stage] = Pending(n)]
  /\ task_out' = [task_out EXCEPT ![stage] = NoOutcomes(n)]
  /\ settle_order' = [settle_order EXCEPT ![stage] = <<>>]

\* a task reaches `async with self.semaphore` with a permit free
EnterBlock(stage, k) ==
  /\ k \in 1..Len(task_pc[stage])
  /\ task_pc[stage][k] = "pending"
  /\ SemaphoreFree(semaphore[stage])
  /\ semaphore' = [semaphore EXCEPT ![stage] = @ - 1]
  /\ task_pc' = [task_pc EXCEPT ![stage][k] = "body"]
  /\ UNCHANGED <<task_out, settle_order>>

\* a task leaves the block, by return or by exception
LeaveBlock(stage, k, out) ==
  /\ k \in 1..Len(task_pc[stage])
  /\ task_pc[stage][k] = "body"
  /\ semaphore' = [semaphore EXCEPT ![stage] = SemaphoreExit(@, out.kind)]
  /\ task_pc' = [task_pc EXCEPT ![stage][k] = "done"]
  /\ task_out' = [task_out EXCEPT ![stage][k] = out]
  /\ settle_order' = [settle_order EXCEPT ![stage] = Append(@, k)]

\* In run_async the body of a stage task is taken as a whole, from the entry
\* into the block to the value or exception that leaves it.
Enter(stage, k) ==
  /\ EnterBlock(stage, k)
  /\ UNCHANGED <<pl_pc, stats, sessions, all_insights, unique_insights,
                 all_variations,
                 evaluated_insights, rlvars, clvars, fsvars, ddvars, slvars, jsvars>>

Settle(stage, k, out) ==
  /\ out \in OutcomesOf(stage, k)
  /\ LeaveBlock(stage, k, out)
  /\ UNCHANGED <<pl_pc, stats, sessions, all_insights, unique_insights,
                 all_variations,
                 evaluated_insights, rlvars, clvars, fsvars, ddvars, slvars, jsvars>>

\* pipeline.py:134-176 with the InsightGenerator of the sources: its
\* constructor has no max_concurrent parameter
RunStartRejected ==
  /\ pl_pc = "start"
  /\ pl_pc' = "aborted"
  /\ sessions' = ScopeExit(ScopeEnter(sessions, "generation"), "generation")
  /\ UNCHANGED <<stats, semaphore, task_pc, task_out, settle_order,
                 all_insights, unique_insights, all_variations,
                 evaluated_insights, rlvars, clvars, fsvars, ddvars, slvars, jsvars>>

\* pipeline.py:134-203 with the asynchronous generator it is written for
RunStart ==
  /\ pl_pc = "start"
  /\ pl_pc' = "generating"
  /\ sessions' = ScopeEnter(sessions, "generation")
  /\ Launch("generation", NumCohorts * NumTemplates)
  /\ stats' = [stats EXCEPT !.generation_attempts = NumCohorts * NumTemplates]
  /\ UNCHANGED <<all_insights, unique_insights, all_variations,
                 evaluated_insights, rlvars, clvars, fsvars, ddvars, slvars, jsvars>>

GenerationEnter(k) == pl_pc = "generating" /\ Enter("generation", k)

GenerationSettle(k, out) == pl_pc = "generating" /\ Settle("generation", k, out)

\* insights tagged with the cohort and template the task loop ended on
InsightsOfLastTask(result, metadata) ==
  [j \in 1..result.n |->
     [insight_id |-> 0, cohort |-> NumCohorts,
      insight_template |-> NumTemplates,
      generation_model |-> "generation_model",
      generated_at |-> "generation_timestamp", task |-> result.task]]

\* lines 217-224: the insights of one result, tagged with the metadata paired
\* with it, the generation model and the generation timestamp; `task` is the
\* task that produced them
InsightsOf(result, metadata) ==
  [j \in 1..result.n |->
     [insight_id |-> 0, cohort |-> metadata.cohort,
      insight_template |-> metadata.insight_template,
      generation_model |-> "generation_model",
      generated_at |-> "generation_timestamp", task |-> result.task]]

\* lines 210-224 over the first m pairs of zip(results, task_metadata)
RECURSIVE CollectInsights(_, _)
CollectInsights(results, m) ==
  IF m = 0 THEN <<>>
  ELSE CollectInsights(results, m - 1) \o
       (IF results[m].kind = "list"
        THEN InsightsOf(results[m], TaskMetadata[m]) ELSE <<>>)

\* str(uuid.uuid4()): an identifier no other insight has
WithIds(insights) ==
  [j \in 1..Len(insights) |-> [insights[j] EXCEPT !.insight_id = j]]

\* a run that goes on whatever a stage has yielded
NeverShortCircuit(found) == FALSE

\* len(all_insights) == 0 (line 234), len(all_variations) == 0 (line 370)
NoSurvivors(found) == Len(found) = 0

\* lines 205-236: gather has returned, the results are counted and flattened
GenerationCollect ==
  /\ pl_pc = "generating"
  /\ AllDone("generation")
  /\ sessions' = ScopeExit(sessions, "generation")
  /\ LET results == Gather(task_out["generation"], settle_order["generation"])
         m == Walked(results)
         found == WithIds(CollectInsights(results, m))
     IN /\ all_insights' = found
        /\ stats' = [stats EXCEPT
             !.generation_failures = @ + CountKinds(results, {"exception"}, m),
             !.generation_successes =
                @ + CountKinds(results, {"list", "bad_list"}, m),
             !.total_insights_generated =
                IF FirstBad(results) = 0 THEN Len(found) ELSE @]
        /\ pl_pc' = IF FirstBad(results) # 0 THEN "crashed"
                    ELSE IF NoSurvivors(found) THEN "returned_empty"
                    ELSE "deduplicating"
  /\ UNCHANGED <<semaphore, task_pc, task_out, settle_order, unique_insights,
                 all_variations, evaluated_insights, rlvars, clvars, fsvars, ddvars, slvars, jsvars>>

\* the pairs of an edge set, read as a directed graph
LinkedOneWay(edges, i, j) == <<i, j>> \in edges

\* the pairs of an edge set, read as an undirected graph on 1..n
Linked(edges, i, j) == <<i, j>> \in edges \/ <<j, i>> \in edges

\* nodes reachable from the nodes of `seen`
RECURSIVE Reach(_, _, _)
Reach(edges, n, seen) ==
  LET more == seen \cup {j \in 1..n : \E i \in seen : Linked(edges, i, j)}
  IN IF more = seen THEN seen ELSE Reach(edges, n, more)

\* nx.connected_components(G)
Components(edges, n) == {Reach(edges, n, {i}) : i \in 1..n}

Min(S) == CHOOSE x \in S : \A y \in S : x <= y

\* sorted(unique_indices)
RECURSIVE Sorted(_)
Sorted(S) == IF S = {} THEN <<>> ELSE <<Min(S)>> \o Sorted(S \ {Min(S)})

Max(S) == CHOOSE x \in S : \A y \in S : x >= y

\* the highest index of every cluster
KeepLastOfCluster(edges, n) == Sorted({Max(c) : c \in Components(edges, n)})

\* lines 257-270: the lowest index of every cluster, in ascending order
UniqueIndices(edges, n) == Sorted({Min(c) : c \in Components(edges, n)})

(***************************************************************************)
(* InsightDeduplicator on one batch.  Weights and cosines are whole numbers *)
(* of units: a similarity of 1.0 is One.                                   *)
(***************************************************************************)
One == WeightUnit * CosUnit

Components3 == {"hook", "explanation", "action"}
WeightRange == (0 - NegWeight)..MaxWeight
CosLevels == (0 - CosUnit)..CosUnit
Thresholds == 0..(One + 1)

NoWeights == [c \in Components3 |-> 0]

\* None, for _embeddings, _similarity_matrix, _results and threshold
NoEmbeddings == <<>>
NoMatrix == <<>>
NoResults == <<>>
NoThreshold == -1

\* no deduplicator has been constructed
DedupIdle ==
  /\ dd_pc = "idle"
  /\ dd_n = 0
  /\ weights = NoWeights
  /\ cosines = <<>>
  /\ similarity_matrix = <<>>
  /\ threshold = 0
  /\ clusters = {}
  /\ unique_indices = <<>>
  /\ dd_results = NoResults
  /\ dd_raised = "none"
  /\ dd_analyzed = FALSE
  /\ greedy_runs = <<>>
  /\ overall_stats = NoResults

\* weights=None, or an empty dict: what `weights or {...}` replaces
NoWeightsGiven == <<>>

\* line 52: {"hook": 0.4, "action": 0.4, "explanation": 0.2}
DefaultWeights ==
  [hook |-> DefaultHook, action |-> DefaultAction,
   explanation |-> DefaultExplanation]

\* InsightDeduplicator(insights, weights, ...) is called; until the
\* constructor has run, `weights` holds its argument
DedupInit ==
  /\ dd_pc = "new"
  /\ dd_n \in 1..MaxInsights
  /\ weights \in [Components3 -> WeightRange] \cup {NoWeightsGiven}
  /\ cosines = <<>>
  /\ similarity_matrix = <<>>
  /\ threshold = 0
  /\ clusters = {}
  /\ unique_indices = <<>>
  /\ dd_results = NoResults
  /\ dd_raised = "none"
  /\ dd_analyzed = FALSE
  /\ greedy_runs = <<>>
  /\ overall_stats = NoResults

\* batch sizes tried when the deduplicator's methods are called in any order
MaxBatch == 2
\* InsightDeduplicator.n_greedy_runs, the greedy runs of one analysis
n_greedy_runs == 2
\* generate() calls made by the tasks of the three stages of one run
MaxStageCalls == 3
\* the seconds of a run that are followed
MaxStageSeconds == 4

\* a constructor that validates nothing
AnyWeightsAccepted(w) == TRUE

\* np.isclose(sum(self.weights.values()), 1.0)
WeightsAccepted(w) == w["hook"] + w["explanation"] + w["action"] = WeightUnit

\* line 52: self.weights = weights or {...}
WeightsOr(w) == IF w = NoWeightsGiven THEN DefaultWeights ELSE w

\* lines 51-67: the weights are stored, then validated; ValueError is raised
\* out of the constructor when they are not accepted
DedupConstruct ==
  /\ dd_pc = "new"
  /\ weights' = WeightsOr(weights)
  /\ dd_pc' = IF WeightsAccepted(weights') THEN "constructed" ELSE "rejected"
  /\ dd_raised' = IF WeightsAccepted(weights') THEN "none" ELSE "ValueError"
  /\ UNCHANGED <<dd_n, cosines, similarity_matrix, threshold, clusters,
                 unique_indices, dd_results, dd_analyzed, greedy_runs, overall_stats, rlvars, clvars,
                 plvars, fsvars,
                 slvars, jsvars>>

Pairs(n) == {p \in (1..n) \X (1..n) : p[1] < p[2]}

\* sklearn's cosine_similarity(X) of n embeddings: symmetric, 1.0 on the
\* diagonal, and anything from -1.0 to 1.0 elsewhere
CosineMatrices(n) ==
  {[i \in 1..n |-> [j \in 1..n |->
      IF i = j THEN CosUnit
      ELSE IF i < j THEN u[<<i, j>>] ELSE u[<<j, i>>]]] :
   u \in [Pairs(n) -> CosLevels]}

\* lines 78-116: the embeddings of the three components are computed
ComputeEmbeddings ==
  /\ dd_pc = "constructed"
  /\ cosines' \in [Components3 -> CosineMatrices(dd_n)]
  /\ dd_pc' = "embedded"
  /\ dd_raised' = "none"
  /\ UNCHANGED <<dd_n, weights, similarity_matrix, threshold, clusters,
                 unique_indices, dd_results, dd_analyzed, greedy_runs, overall_stats, rlvars, clvars,
                 plvars, fsvars,
                 slvars, jsvars>>

\* lines 118-135
WeightedSimilarity(w, cos, n) ==
  [i \in 1..n |-> [j \in 1..n |->
     w["hook"] * cos["hook"][i][j]
     + w["explanation"] * cos["explanation"][i][j]
     + w["action"] * cos["action"][i][j]]]

\* a deduplicator exists: the constructor returned
Constructed == dd_pc \in {"constructed", "embedded", "compared", "clustered"}

\* a matrix of zeros returned for want of embeddings
MatrixOrZeros ==
  IF similarity_matrix # NoMatrix THEN similarity_matrix
  ELSE IF cosines = NoEmbeddings THEN [i \in 1..dd_n |-> [j \in 1..dd_n |-> 0]]
  ELSE WeightedSimilarity(weights, cosines, dd_n)

\* get_similarity_matrix (lines 137-152) as run on the present state: the
\* matrix it returns or caches, or NoMatrix when _compute_weighted_similarity
\* raises at lines 120-121 for want of embeddings
MatrixNow ==
  IF similarity_matrix # NoMatrix THEN similarity_matrix
  ELSE IF cosines = NoEmbeddings THEN NoMatrix
  ELSE WeightedSimilarity(weights, cosines, dd_n)

\* the position once the matrix has been computed
ComparedPc == IF dd_pc = "embedded" THEN "compared" ELSE dd_pc

\* lines 137-152: the cached matrix is returned; without one it is computed
\* and cached, and ValueError is raised when there are no embeddings
GetSimilarityMatrix ==
  /\ Constructed
  /\ similarity_matrix' = MatrixNow
  /\ dd_raised' = IF MatrixNow = NoMatrix THEN "ValueError" ELSE "none"
  /\ dd_pc' = IF MatrixNow = NoMatrix THEN dd_pc ELSE ComparedPc
  /\ UNCHANGED <<dd_n, weights, cosines, threshold, clusters, unique_indices,
                 dd_results, dd_analyzed, greedy_runs, overall_stats, rlvars, clvars, plvars, fsvars,
                 slvars, jsvars>>

\* the edges added for i < j with similarity_matrix[i, j] >= threshold
\* the pairs strictly above the threshold only
EdgesAbove(sim, n, th) == {p \in Pairs(n) : sim[p[1]][p[2]] > th}

ThresholdEdges(sim, n, th) == {p \in Pairs(n) : sim[p[1]][p[2]] >= th}

\* lines 430-480: the results of an analysis, by the threshold and the
\* cluster count of its overall statistics
AnalysisOf(sim, n, th) ==
  [threshold |-> th,
   cluster_count |-> Cardinality(Components(ThresholdEdges(sim, n, th), n))]

\* lines 402-403: the threshold analyze(threshold) goes on with
ThresholdFor(arg) == IF arg # NoThreshold THEN arg ELSE threshold

\* lines 402-483: analyze(arg).  The threshold is taken, ValueError is
\* raised without one (405-408), the matrix is fetched (413, raising without
\* embeddings), the analyses are computed and stored in _results.  The
\* pandas analyses of lines 416-469 may themselves raise (`completes` is
\* FALSE), and then nothing is stored.
Analyze(arg, completes) ==
  LET th == ThresholdFor(arg)
      fetched == th # NoThreshold
      sim == IF fetched THEN MatrixNow ELSE similarity_matrix
      done == fetched /\ sim # NoMatrix /\ completes
  IN /\ Constructed
     /\ threshold' = th
     /\ similarity_matrix' = sim
     /\ dd_pc' = IF fetched /\ sim # NoMatrix THEN ComparedPc ELSE dd_pc
     /\ dd_results' = IF done THEN AnalysisOf(sim, dd_n, th) ELSE dd_results
     /\ dd_analyzed' = (dd_analyzed \/ done)
     /\ dd_raised' = IF ~fetched \/ sim = NoMatrix THEN "ValueError"
                     ELSE IF completes THEN "none" ELSE "KeyError"
     /\ UNCHANGED <<dd_n, weights, cosines, clusters, unique_indices,
                    greedy_runs, overall_stats, rlvars, clvars, plvars, fsvars,
                 slvars, jsvars>>

\* lines 485-489: get_results()
GetResults ==
  /\ Constructed
  /\ dd_raised' = IF dd_results = NoResults THEN "ValueError" ELSE "none"
  /\ UNCHANGED <<dd_pc, dd_n, weights, cosines, similarity_matrix, threshold,
                 clusters, unique_indices, dd_results, dd_analyzed, greedy_runs, overall_stats, rlvars,
                 clvars, plvars, fsvars,
                 slvars, jsvars>>

\* InsightDeduplicator(insights, weights, threshold) is called, with or
\* without a threshold
DedupCallsInit ==
  /\ dd_pc = "new"
  /\ dd_n \in 1..MaxBatch
  /\ weights \in [Components3 -> WeightRange] \cup {NoWeightsGiven}
  /\ cosines = NoEmbeddings
  /\ similarity_matrix = NoMatrix
  /\ threshold \in Thresholds \cup {NoThreshold}
  /\ clusters = {}
  /\ unique_indices = <<>>
  /\ dd_results = NoResults
  /\ dd_raised = "none"
  /\ dd_analyzed = FALSE
  /\ greedy_runs = <<>>
  /\ overall_stats = NoResults

\* pipeline.py:257-270 and deduplicator.py:199-224: the threshold graph is
\* built, its components are found, the lowest index of each is kept
\* np.random.permutation(n): the orders in which a greedy run may visit the
\* items
Orders(n) ==
  {p \in [1..n -> 1..n] : \A i, j \in 1..n : i # j => p[i] # p[j]}

\* idx is compared with the item kept last only
IsDuplicateOfLast(sim, th, idx, kept_indices) ==
  /\ Len(kept_indices) > 0
  /\ sim[idx][kept_indices[Len(kept_indices)]] >= th

\* lines 185-189: idx is at or above the threshold with an item kept so far
IsDuplicate(sim, th, idx, kept_indices) ==
  \E m \in 1..Len(kept_indices) : sim[idx][kept_indices[m]] >= th

\* lines 181-192: kept_indices after the first k items of the order
RECURSIVE GreedyKept(_, _, _, _)
GreedyKept(sim, th, order, k) ==
  IF k = 0 THEN <<>>
  ELSE LET kept_indices == GreedyKept(sim, th, order, k - 1)
       IN IF IsDuplicate(sim, th, order[k], kept_indices) THEN kept_indices
          ELSE Append(kept_indices, order[k])

RECURSIVE SumTo(_, _)
SumTo(results, k) == IF k = 0 THEN 0 ELSE results[k] + SumTo(results, k - 1)

\* np.mean(results), as the fraction <<numerator, denominator>>
Mean(results) == <<SumTo(results, Len(results)), Len(results)>>

\* np.std(results) squared, the mean of the squared deviations from the
\* mean, as a fraction: sum((R x - S)^2) / R^3 for R results of sum S
StdSquared(results) ==
  LET R == Len(results)
      S == SumTo(results, R)
      deviations == [r \in 1..R |-> (R * results[r] - S) * (R * results[r] - S)]
  IN <<SumTo(deviations, R), R * R * R>>

\* _greedy_deduplication, lines 177-197, for the orders the generator draws
GreedyDeduplication(sim, n, th, orders) ==
  LET kept == [r \in 1..n_greedy_runs |-> GreedyKept(sim, th, orders[r], n)]
      results == [r \in 1..n_greedy_runs |-> Len(kept[r])]
  IN [mean |-> Mean(results), std_squared |-> StdSquared(results),
      results |-> results, kept |-> kept]

\* _compute_duplicate_counts, lines 235-242: the items of row i at or above
\* the threshold, less one for the item itself
DuplicateCounts(sim, n, th) ==
  [i \in 1..n |-> Cardinality({j \in 1..n : sim[i][j] >= th}) - 1]

\* overall_stats of analyze(), lines 420-438, with the duplicate_counts of
\* line 479
OverallStats(sim, n, th, greedy) ==
  [total_insights |-> n,
   greedy_unique_mean |-> greedy.mean,
   greedy_unique_std_squared |-> greedy.std_squared,
   cluster_count |-> AnalysisOf(sim, n, th).cluster_count,
   duplicate_counts |-> DuplicateCounts(sim, n, th)]

\* analyze() on a deduplicator that has its matrix and its threshold, run
\* to the end: the greedy runs, the clusters and the duplicate counts.  As
\* in run_async (pipeline.py:251) a deduplicator is analyzed once.
AnalyzeOverall(orders) ==
  /\ dd_pc \in {"compared", "clustered"}
  /\ ~dd_analyzed
  /\ LET greedy == GreedyDeduplication(similarity_matrix, dd_n, threshold, orders)
     IN /\ greedy_runs' =
             [r \in 1..n_greedy_runs |->
                [order |-> orders[r], kept_indices |-> greedy.kept[r]]]
        /\ overall_stats' =
             OverallStats(similarity_matrix, dd_n, threshold, greedy)
  /\ dd_results' = AnalysisOf(similarity_matrix, dd_n, threshold)
  /\ dd_analyzed' = TRUE
  /\ dd_raised' = "none"
  /\ UNCHANGED <<dd_pc, dd_n, weights, cosines, similarity_matrix, threshold,
                 clusters, unique_indices, rlvars, clvars, plvars, fsvars,
                 slvars, jsvars>>

\* the embeddings a file written by save_embeddings() can hold for a batch
\* of n insights: the three components of each pair equally alike
SavedEmbeddings(n) == {[c \in Components3 |-> m] : m \in CosineMatrices(n)}

\* load_embeddings(): _embeddings is replaced by the file's, the cached
\* _similarity_matrix is left as it is
LoadEmbeddings ==
  /\ Constructed
  /\ cosines' \in SavedEmbeddings(dd_n)
  /\ dd_pc' = IF dd_pc = "constructed" THEN "embedded" ELSE dd_pc
  /\ dd_raised' = "none"
  /\ UNCHANGED <<dd_n, weights, similarity_matrix, threshold, clusters,
                 unique_indices, dd_results, dd_analyzed, greedy_runs, overall_stats, rlvars, clvars,
                 plvars, fsvars, slvars, jsvars>>

\* a deduplicator with default weights that has loaded its embeddings and
\* built its matrix, with the threshold it was constructed with
AnalysisInit ==
  /\ dd_pc = "compared"
  /\ dd_n \in 1..MaxInsights
  /\ weights = DefaultWeights
  /\ cosines \in SavedEmbeddings(dd_n)
  /\ similarity_matrix = WeightedSimilarity(weights, cosines, dd_n)
  /\ threshold \in Thresholds
  /\ clusters = {}
  /\ unique_indices = <<>>
  /\ dd_results = NoResults
  /\ dd_raised = "none"
  /\ dd_analyzed = FALSE
  /\ greedy_runs = <<>>
  /\ overall_stats = NoResults

Cluster(th) ==
  /\ dd_pc = "compared"
  /\ threshold' = th
  /\ clusters' = Components(ThresholdEdges(similarity_matrix, dd_n, th), dd_n)
  /\ unique_indices' =
       UniqueIndices(ThresholdEdges(similarity_matrix, dd_n, th), dd_n)
  /\ dd_pc' = "clustered"
  /\ UNCHANGED <<dd_n, weights, cosines, similarity_matrix, dd_results,
                 dd_raised, dd_analyzed, greedy_runs, overall_stats, rlvars, clvars, plvars, fsvars,
                 slvars, jsvars>>

\* lines 241-321: the duplicates are dropped, then the rewriter is constructed
\* and one rewrite task per survivor is handed to gather.  The pairs with a
\* similarity at or above the threshold come from the embedding model.
Deduplicate ==
  /\ pl_pc = "deduplicating"
  /\ \E edges \in SUBSET {<<i, j>> \in (1..Len(all_insights)) \X (1..Len(all_insights)) : i < j} :
       LET keep == UniqueIndices(edges, Len(all_insights))
           unique == [i \in 1..Len(keep) |-> all_insights[keep[i]]]
       IN /\ unique_insights' = unique
          /\ stats' = [stats EXCEPT
               !.unique_insights_after_dedup = Len(unique),
               !.creative_attempts = Len(unique)]
          /\ Launch("creative", Len(unique))
  /\ sessions' = ScopeEnter(sessions, "creative")
  /\ pl_pc' = "rewriting"
  /\ UNCHANGED <<all_insights, all_variations, evaluated_insights, rlvars,
                 clvars, fsvars, ddvars, slvars, jsvars>>

\* CreativeRewriter.rewrite, lines 71-86
RewriteEnter(k) == pl_pc = "rewriting" /\ Enter("creative", k)

RewriteSettle(k, out) == pl_pc = "rewriting" /\ Settle("creative", k, out)

\* lines 338-360: the variations of one result, built on the insight paired
\* with it; `parent` is the insight the rewrite task was given
VariationsOf(result, insight) ==
  [idx \in 1..result.n |->
     [variation_id |-> <<insight.insight_id, idx>>,
      insight_id |-> insight.insight_id,
      cohort |-> insight.cohort,
      insight_template |-> insight.insight_template,
      generation_model |-> insight.generation_model,
      generated_at |-> insight.generated_at,
      creative_model |-> "creative_model",
      created_at |-> "creative_timestamp",
      parent |-> unique_insights[result.task].insight_id,
      evaluation |-> "none", evaluation_of |-> 0,
      evaluation_model |-> "none", evaluated_at |-> "none"]]

\* lines 330-360 over the first m pairs of zip(unique_insights, creative_results)
RECURSIVE CollectVariations(_, _)
CollectVariations(results, m) ==
  IF m = 0 THEN <<>>
  ELSE CollectVariations(results, m - 1) \o
       (IF results[m].kind = "list"
        THEN VariationsOf(results[m], unique_insights[m]) ELSE <<>>)

\* lines 325-405: the rewrites are counted and flattened, then the evaluator is
\* constructed and one evaluation task per variation is handed to gather
RewriteCollect ==
  /\ pl_pc = "rewriting"
  /\ AllDone("creative")
  /\ LET results == Gather(task_out["creative"], settle_order["creative"])
         m == Walked(results)
         found == CollectVariations(results, m)
         go == FirstBad(results) = 0 /\ ~NoSurvivors(found)
     IN /\ all_variations' = found
        /\ stats' = [stats EXCEPT
             !.creative_failures = @ + CountKinds(results, {"exception"}, m),
             !.creative_successes =
                @ + CountKinds(results, {"list", "bad_list"}, m),
             !.total_variations_created =
                IF FirstBad(results) = 0 THEN Len(found) ELSE @,
             !.evaluation_attempts = IF go THEN Len(found) ELSE @]
        /\ pl_pc' = IF FirstBad(results) # 0 THEN "crashed"
                    ELSE IF NoSurvivors(found) THEN "returned_empty"
                    ELSE "evaluating"
        /\ IF go
           THEN /\ Launch("evaluation", Len(found))
                /\ sessions' = ScopeEnter(ScopeExit(sessions, "creative"),
                                          "evaluation")
           ELSE /\ UNCHANGED <<semaphore, task_pc, task_out, settle_order>>
                /\ sessions' = ScopeExit(sessions, "creative")
  /\ UNCHANGED <<all_insights, unique_insights, evaluated_insights, rlvars,
                 clvars, fsvars, ddvars, slvars, jsvars>>

\* InsightEvaluator.evaluate, lines 70-82
EvaluateEnter(k) == pl_pc = "evaluating" /\ Enter("evaluation", k)

EvaluateSettle(k, out) == pl_pc = "evaluating" /\ Settle("evaluation", k, out)

\* a result loop that keeps only the variations whose evaluation succeeded
EvaluatedDropFailed(results) ==
  SelectSeq([i \in 1..Len(all_variations) |->
               [all_variations[i] EXCEPT
                  !.evaluation = IF results[i].kind = "criteria"
                                 THEN "criteria" ELSE "failed",
                  !.evaluation_of = results[i].task,
                  !.evaluation_model = "evaluation_model",
                  !.evaluated_at = "evaluation_timestamp"]],
            LAMBDA v : v.evaluation = "criteria")

\* lines 413-431: every variation is kept, with the evaluation paired with
\* it, the evaluation model and the evaluation timestamp; `evaluation_of` is
\* the variation the evaluation task was given
Evaluated(results) ==
  [i \in 1..Len(all_variations) |->
     [all_variations[i] EXCEPT
        !.evaluation = IF results[i].kind = "criteria" THEN "criteria"
                       ELSE "failed",
        !.evaluation_of = results[i].task,
        !.evaluation_model = "evaluation_model",
        !.evaluated_at = "evaluation_timestamp"]]

\* lines 407-432
EvaluationCollect ==
  /\ pl_pc = "evaluating"
  /\ AllDone("evaluation")
  /\ sessions' = ScopeExit(sessions, "evaluation")
  /\ LET results == Gather(task_out["evaluation"], settle_order["evaluation"])
     IN /\ evaluated_insights' = Evaluated(results)
        /\ stats' = [stats EXCEPT
             !.evaluation_successes =
                @ + CountKinds(results, {"criteria"}, Len(results)),
             !.evaluation_failures =
                @ + CountKinds(results, {"exception", "other"}, Len(results)),
             !.final_insights = Len(results)]
  /\ pl_pc' = "saving"
  /\ UNCHANGED <<semaphore, task_pc, task_out, settle_order, all_insights,
                 unique_insights, all_variations, rlvars, clvars, fsvars, ddvars, slvars, jsvars>>

\* lines 444-622: the JSON and CSV artifacts are written, the run returns
\* run 0 is the run whose stages are followed; runs 1..NumRuns are followed
\* only where they write
Runs == 1..NumRuns
Ticks == 0..MaxClock

\* datetime.now().strftime("%Y%m%d_%H%M%S"): the instant, cut to its second
Timestamp(t) == t \div TicksPerSecond

Stamps == {Timestamp(t) : t \in Ticks}

NoFile == [run |-> -1, insights |-> <<>>]
NoStamp == -1

\* an output directory without artifacts of this market
OutputInit ==
  /\ files = [stamp \in Stamps |-> NoFile]
  /\ clock = 0
  /\ run_pc = [r \in Runs |-> "idle"]
  /\ run_file = [r \in 0..NumRuns |-> NoStamp]

\* an open() that refuses to replace an existing file
WriteArtifactsExclusive(fs, stamp, data) ==
  IF fs[stamp] = NoFile THEN [fs EXCEPT ![stamp] = data] ELSE fs

\* lines 511-522: pipeline_{market}_{timestamp}.json and .csv are opened with
\* mode "w", which creates the file or empties the one that is there
WriteArtifacts(fs, stamp, data) == [fs EXCEPT ![stamp] = data]

\* lines 444-622 at instant t: the JSON and CSV artifacts are written, the
\* run returns
Save(t) ==
  /\ pl_pc = "saving"
  /\ t >= clock
  /\ clock' = t
  /\ files' = WriteArtifacts(files, Timestamp(t),
                             [run |-> 0, insights |-> evaluated_insights])
  /\ run_file' = [run_file EXCEPT ![0] = Timestamp(t)]
  /\ pl_pc' = "persisted"
  /\ UNCHANGED <<stats, semaphore, sessions, task_pc, task_out, settle_order,
                 all_insights, unique_insights, all_variations,
                 evaluated_insights, rlvars, clvars, run_pc, ddvars, slvars, jsvars>>

\* the positions in which run_async has returned before the rewriting
\* stage: the run that is repeated generated no insight
RunReturned == {"returned_empty"}

\* run_async is called again on the same DYKPipeline: its locals are new,
\* the clients and workers of the last run are gone, self.stats is the
\* dictionary __init__ made (lines 90-111)
RunAgain ==
  /\ pl_pc \in RunReturned
  /\ all_insights = <<>>
  /\ stats.generation_successes + stats.generation_failures
       <= NumCohorts * NumTemplates
  /\ pl_pc' = "start"
  /\ semaphore' = [s \in Stages |-> NoSemaphore]
  /\ sessions' = [s \in Stages |-> "none"]
  /\ task_pc' = [s \in Stages |-> <<>>]
  /\ task_out' = [s \in Stages |-> <<>>]
  /\ settle_order' = [s \in Stages |-> <<>>]
  /\ all_insights' = <<>>
  /\ unique_insights' = <<>>
  /\ all_variations' = <<>>
  /\ evaluated_insights' = <<>>
  /\ UNCHANGED <<stats, rlvars, clvars, fsvars, ddvars, slvars, jsvars>>

\* another run of the same market and output directory starts
RunBegin(r) ==
  /\ run_pc[r] = "idle"
  /\ run_pc' = [run_pc EXCEPT ![r] = "running"]
  /\ UNCHANGED <<files, clock, run_file, rlvars, clvars, plvars, ddvars, slvars, jsvars>>

\* it reaches lines 444-522 at instant t with its own records
RunSave(r, t) ==
  /\ run_pc[r] = "running"
  /\ t >= clock
  /\ clock' = t
  /\ files' = WriteArtifacts(files, Timestamp(t),
                             [run |-> r, insights |-> <<r>>])
  /\ run_file' = [run_file EXCEPT ![r] = Timestamp(t)]
  /\ run_pc' = [run_pc EXCEPT ![r] = "saved"]
  /\ UNCHANGED <<rlvars, clvars, plvars, ddvars, slvars, jsvars>>

(***************************************************************************)
(* The three stage clients of one run and the rate limiters they call.     *)
(* Limiter 0 is the one DYKPipeline.__init__ constructs; a client that is  *)
(* given no limiter constructs its own.                                    *)
(***************************************************************************)
PipelineLimiter == 0
NoLimiter == -1

\* RateLimiter(): requests_per_minute = 60, requests_per_second = 10
DefaultPerMinute == 60
DefaultPerSecond == 10

OwnLimiter(stage) ==
  CASE stage = "generation" -> PipelineLimiter + 1
    [] stage = "creative"   -> PipelineLimiter + 2
    [] stage = "evaluation" -> PipelineLimiter + 3

LimiterIds == {PipelineLimiter} \cup {OwnLimiter(s) : s \in Stages}

PerMinuteOf(l) ==
  IF l = PipelineLimiter THEN requests_per_minute ELSE DefaultPerMinute

PerSecondOf(l) ==
  IF l = PipelineLimiter THEN requests_per_second ELSE DefaultPerSecond

\* the stage run_async goes through before `stage`
StageBefore(stage) ==
  CASE stage = "generation" -> "start"
    [] stage = "creative"   -> "generation"
    [] stage = "evaluation" -> "creative"

\* a client constructed without rate_limiter
PassedNone(stage) == NoLimiter

\* pipeline.py:169-171, 296-298, 380-382: rate_limiter=self.rate_limiter
PassedLimiter(stage) == PipelineLimiter

\* llm_client.py:67: self.rate_limiter = rate_limiter or RateLimiter()
LimiterOr(given, stage) == IF given # NoLimiter THEN given ELSE OwnLimiter(stage)

\* DYKPipeline.__init__ has run, run_async is about to
StagesInit ==
  /\ sl_stage = "start"
  /\ sl_limiter = [s \in Stages |-> NoLimiter]
  /\ sl_windows = [l \in LimiterIds |-> [minute |-> <<>>, second |-> <<>>]]
  /\ sl_calls = 0
  /\ sl_backoff = <<>>
  /\ sl_admitted = <<>>
  /\ sl_posts = <<>>
  /\ sl_clock = 0

\* the client of a stage is constructed, once gather has returned for the
\* stage before: none of its calls is still under way
StageOpen(stage) ==
  /\ sl_stage = StageBefore(stage)
  /\ sl_backoff = <<>>
  /\ sl_stage' = stage
  /\ sl_limiter' =
       [sl_limiter EXCEPT ![stage] = LimiterOr(PassedLimiter(stage), stage)]
  /\ UNCHANGED <<sl_windows, sl_calls, sl_backoff, sl_admitted, sl_posts,
                 sl_clock,
                 rlvars, clvars, plvars, fsvars, ddvars, jsvars>>

\* the attempt with index a ended in o and is followed by a sleep and a retry
Retried(o, a) ==
  /\ o # <<200, "choices">>
  /\ ~IsClientError(o)
  /\ MayRetry(a, max_retries)

\* a task of the stage calls generate() at a time the limiter of its client
\* admits it (llm_client.py:27-42; a pass that finds a window full sleeps and
\* comes back), and the first POST follows at once (lines 107-132) and ends
\* in o
StageGenerate(o) ==
  /\ sl_stage \in Stages
  /\ sl_calls < MaxStageCalls
  /\ LET l == sl_limiter[sl_stage]
         mw == Prune(sl_windows[l].minute, MinuteSpan)
         sw == Prune(sl_windows[l].second, SecondSpan)
     IN /\ CanProceed(mw, sw, PerMinuteOf(l), PerSecondOf(l))
        /\ sl_windows' = [sl_windows EXCEPT
             ![l] = [minute |-> Append(mw, 0), second |-> Append(sw, 0)]]
        /\ sl_admitted' =
             Append(sl_admitted, [age |-> 0, stage |-> sl_stage, limiter |-> l])
  /\ sl_calls' = sl_calls + 1
  /\ sl_posts' = Append(sl_posts, 0)
  /\ sl_backoff' = IF Retried(o, 0)
                   THEN Append(sl_backoff, [attempt |-> 0, slept |-> 0])
                   ELSE sl_backoff
  /\ UNCHANGED <<sl_stage, sl_limiter, sl_clock, rlvars, clvars, plvars,
                 fsvars, ddvars, jsvars>>

\* the sequence without its i-th element
Without(seq, i) ==
  [j \in 1..(Len(seq) - 1) |-> IF j < i THEN seq[j] ELSE seq[j + 1]]

\* lines 141-153 and 123-132: the sleep of a call is over (it lasts at least
\* base_wait) and the next attempt posts, without a word to the limiter; it
\* ends in o
StageRetry(i, o) ==
  /\ i \in 1..Len(sl_backoff)
  /\ sl_backoff[i].slept >= BaseWait(sl_backoff[i].attempt)
  /\ sl_posts' = Append(sl_posts, 0)
  /\ sl_backoff' =
       IF Retried(o, sl_backoff[i].attempt + 1)
       THEN [sl_backoff EXCEPT
               ![i] = [attempt |-> sl_backoff[i].attempt + 1, slept |-> 0]]
       ELSE Without(sl_backoff, i)
  /\ UNCHANGED <<sl_stage, sl_limiter, sl_windows, sl_calls, sl_admitted,
                 sl_clock, rlvars, clvars, plvars, fsvars, ddvars, jsvars>>

\* one second passes
StageTick ==
  /\ sl_stage \in Stages
  /\ sl_clock < MaxStageSeconds
  /\ sl_clock' = sl_clock + 1
  /\ sl_windows' =
       [l \in LimiterIds |->
          [minute |-> Older(sl_windows[l].minute, MinuteSpan),
           second |-> Older(sl_windows[l].second, SecondSpan)]]
  /\ sl_admitted' =
       SelectSeq([j \in 1..Len(sl_admitted) |->
                    [sl_admitted[j] EXCEPT !.age = @ + 1]],
                 LAMBDA a : a.age < MinuteSpan)
  /\ sl_posts' = Prune(Older(sl_posts, MinuteSpan), MinuteSpan)
  /\ sl_backoff' =
       [j \in 1..Len(sl_backoff) |->
          [sl_backoff[j] EXCEPT
             !.slept = IF @ < BaseWait(sl_backoff[j].attempt) THEN @ + 1 ELSE @]]
  /\ UNCHANGED <<sl_stage, sl_limiter, sl_calls, rlvars, clvars, plvars,
                 fsvars, ddvars, jsvars>>

\* no stage client has been constructed
StagesIdle ==
  /\ sl_stage = "idle"
  /\ sl_limiter = <<>>
  /\ sl_windows = <<>>
  /\ sl_calls = 0
  /\ sl_backoff = <<>>
  /\ sl_admitted = <<>>
  /\ sl_posts = <<>>
  /\ sl_clock = 0

\* no response is being parsed
ParserIdle ==
  /\ js_pc = "idle"
  /\ js_response = <<>>
  /\ js_error = <<>>
  /\ js_repaired = <<>>
  /\ js_result = <<>>
  /\ js_parses = 0
  /\ js_repairs = 0

(***************************************************************************)
(* json.loads on a text, a sequence of characters. Positions are Python's: *)
(* the first character is at 0. The characters are those of JsonChars, so  *)
(* a string has no escapes, a number is a run of the digit 1 and the       *)
(* literals null, true and false never occur.                              *)
(***************************************************************************)
Whitespace == {" "}
Digits == {"1"}
Quote == "\""
JsonChars == {"{", "}", "[", "]", ",", ":", Quote, "1", "a", " "}

\* None, where a text or a value is expected
None == <<"None">>

\* s[i:i+1]
At(s, i) == IF 0 <= i /\ i < Len(s) THEN s[i + 1] ELSE ""

\* s[a:b], for 0 <= a
Slice(s, a, b) ==
  LET hi == IF b < Len(s) THEN b ELSE Len(s)
  IN IF hi <= a THEN <<>> ELSE [j \in 1..(hi - a) |-> s[a + j]]

\* the outcomes of a scan: a value and the position after it, or the
\* message and the position of a JSONDecodeError
Ok(v, e) == [ok |-> TRUE, val |-> v, end |-> e, msg |-> "", pos |-> 0]
Err(m, p) == [ok |-> FALSE, val |-> None, end |-> 0, msg |-> m, pos |-> p]

ExpectingValue == "Expecting value"
ExpectingComma == "Expecting ',' delimiter"
ExpectingColon == "Expecting ':' delimiter"
ExpectingName == "Expecting property name enclosed in double quotes"
Unterminated == "Unterminated string starting at"
ExtraData == "Extra data"

\* WHITESPACE.match(s, i).end()
RECURSIVE SkipWs(_, _)
SkipWs(s, i) == IF At(s, i) \in Whitespace THEN SkipWs(s, i + 1) ELSE i

\* the end of the digits that begin at i
RECURSIVE NumberEnd(_, _)
NumberEnd(s, i) == IF At(s, i) \in Digits THEN NumberEnd(s, i + 1) ELSE i

\* int(digits)
RECURSIVE IntOf(_)
IntOf(digits) ==
  IF digits = <<>> THEN 0
  ELSE 10 * IntOf(SubSeq(digits, 1, Len(digits) - 1)) + 1

\* the position of the first quote at or after i, len(s) when there is none
RECURSIVE QuoteAt(_, _)
QuoteAt(s, i) ==
  IF i >= Len(s) THEN Len(s)
  ELSE IF At(s, i) = Quote THEN i ELSE QuoteAt(s, i + 1)

\* scanstring(s, begin): begin is the position after the opening quote
ScanString(s, begin) ==
  IF QuoteAt(s, begin) >= Len(s)
  THEN Err(Unterminated, begin - 1)
  ELSE Ok(<<"str", Slice(s, begin, QuoteAt(s, begin))>>, QuoteAt(s, begin) + 1)

\* pairs[key] = value on a dict kept as the sequence of its items
DictPut(pairs, key, value) ==
  IF \E j \in 1..Len(pairs) : pairs[j][1] = key
  THEN [j \in 1..Len(pairs) |->
          IF pairs[j][1] = key THEN <<key, value>> ELSE pairs[j]]
  ELSE Append(pairs, <<key, value>>)

RECURSIVE ScanOnce(_, _), ObjectPairs(_, _, _), ArrayItems(_, _, _)

\* JSONObject: end is the position after the opening brace
JSONObject(s, end) ==
  LET e == IF At(s, end) # Quote THEN SkipWs(s, end) ELSE end
  IN IF At(s, e) = "}" THEN Ok(<<"dict", <<>>>>, e + 1)
     ELSE IF At(s, e) # Quote THEN Err(ExpectingName, e)
     ELSE ObjectPairs(s, e + 1, <<>>)

\* JSONArray: end is the position after the opening bracket
JSONArray(s, end) ==
  IF At(s, SkipWs(s, end)) = "]"
  THEN Ok(<<"list", <<>>>>, SkipWs(s, end) + 1)
  ELSE ArrayItems(s, SkipWs(s, end), <<>>)

\* scan_once, a StopIteration being the `Expecting value` its callers raise
ScanOnce(s, idx) ==
  CASE At(s, idx) = Quote -> ScanString(s, idx + 1)
    [] At(s, idx) = "{" -> JSONObject(s, idx + 1)
    [] At(s, idx) = "[" -> JSONArray(s, idx + 1)
    [] At(s, idx) \in Digits ->
         Ok(<<"int", IntOf(Slice(s, idx, NumberEnd(s, idx)))>>,
            NumberEnd(s, idx))
    [] OTHER -> Err(ExpectingValue, idx)

\* the loop of JSONObject: end is the position after the quote that opens
\* the next key
ObjectPairs(s, end, pairs) ==
  LET key == ScanString(s, end)
      colon == IF At(s, key.end) # ":" THEN SkipWs(s, key.end) ELSE key.end
      value == ScanOnce(s, SkipWs(s, colon + 1))
      put == DictPut(pairs, key.val[2], value.val)
      after == SkipWs(s, value.end)
      name == SkipWs(s, after + 1)
  IN IF ~key.ok THEN key
     ELSE IF At(s, colon) # ":" THEN Err(ExpectingColon, colon)
     ELSE IF ~value.ok THEN value
     ELSE IF At(s, after) = "}" THEN Ok(<<"dict", put>>, after + 1)
     ELSE IF At(s, after) # "," THEN Err(ExpectingComma, after)
     ELSE IF At(s, name) # Quote THEN Err(ExpectingName, name)
     ELSE ObjectPairs(s, name + 1, put)

\* the loop of JSONArray: end is the position of the next item
ArrayItems(s, end, items) ==
  LET value == ScanOnce(s, end)
      after == SkipWs(s, value.end)
  IN IF ~value.ok THEN value
     ELSE IF At(s, after) = "]"
     THEN Ok(<<"list", Append(items, value.val)>>, after + 1)
     ELSE IF At(s, after) # "," THEN Err(ExpectingComma, after)
     ELSE ArrayItems(s, SkipWs(s, after + 1), Append(items, value.val))

\* json.loads(s)
Loads(s) ==
  LET r == ScanOnce(s, SkipWs(s, 0))
  IN IF ~r.ok THEN r
     ELSE IF SkipWs(s, r.end) # Len(s) THEN Err(ExtraData, SkipWs(s, r.end))
     ELSE r

(***************************************************************************)
(* _parse_json_response and _attempt_json_repair of CreativeRewriter; the  *)
(* two methods of InsightEvaluator are the same code.                      *)
(***************************************************************************)
\* str.strip()
RECURSIVE LStrip(_)
LStrip(s) ==
  IF s # <<>> /\ Head(s) \in Whitespace THEN LStrip(Tail(s)) ELSE s

RECURSIVE RStrip(_)
RStrip(s) ==
  IF s # <<>> /\ s[Len(s)] \in Whitespace
  THEN RStrip(SubSeq(s, 1, Len(s) - 1))
  ELSE s

Strip(s) == RStrip(LStrip(s))

StartsWith(s, prefix) ==
  Len(s) >= Len(prefix) /\ SubSeq(s, 1, Len(prefix)) = prefix

EndsWith(s, suffix) ==
  Len(s) >= Len(suffix) /\ SubSeq(s, Len(s) - Len(suffix) + 1, Len(s)) = suffix

\* the grave accent U+0060, by name
Backtick == "backtick"

Fence == <<Backtick, Backtick, Backtick>>
FenceJson == Fence \o <<"j", "s", "o", "n">>

\* lines 93-98: the three `if`s, one after the other
Unfenced(s) ==
  LET a == IF StartsWith(s, FenceJson)
           THEN SubSeq(s, Len(FenceJson) + 1, Len(s)) ELSE s
      b == IF StartsWith(a, Fence) THEN SubSeq(a, Len(Fence) + 1, Len(a)) ELSE a
  IN IF EndsWith(b, Fence) THEN SubSeq(b, 1, Len(b) - Len(Fence)) ELSE b

\* s.count(ch)
CountOf(s, ch) == Len(SelectSeq(s, LAMBDA c : c = ch))

\* ch * n
Times(ch, n) == [j \in 1..n |-> ch]

\* "expecting" in error_msg
SaysExpecting(msg) ==
  msg \in {ExpectingValue, ExpectingComma, ExpectingColon, ExpectingName}

\* Fix 1 applies: a quote at the error position, right after } or ]
MissingComma(response, msg, pos) ==
  /\ msg \in {ExpectingComma, ExpectingName}
  /\ pos < Len(response)
  /\ At(response, pos) = Quote
  /\ pos > 0
  /\ At(response, pos - 1) \in {"}", "]"}

\* Fix 2: the commas the backward loop may stop at
TrailingCommas(response, msg, pos) ==
  LET lo == IF pos - 10 > 0 THEN pos - 10 ELSE 0
      stop == IF pos - 20 > 0 THEN pos - 20 ELSE 0
      snippet == Slice(response, lo, pos + 5)
  IN IF /\ msg = ExpectingName
        /\ CountOf(snippet, ",") > 0
        /\ CountOf(snippet, "}") + CountOf(snippet, "]") > 0
     THEN {i \in (stop + 1)..(pos - 1) :
             /\ At(response, i) = ","
             /\ Strip(Slice(response, i + 1, pos + 5)) # <<>>
             /\ Strip(Slice(response, i + 1, pos + 5))[1] \in {"}", "]"}}
     ELSE {}

\* Fix 3: missing += "]" * ..., then missing += "}" * ...
MissingClosers(response) ==
  LET brackets == CountOf(response, "[") - CountOf(response, "]")
      braces == CountOf(response, "{") - CountOf(response, "}")
  IN Times("]", IF brackets > 0 THEN brackets ELSE 0)
       \o Times("}", IF braces > 0 THEN braces ELSE 0)

\* max(S)
RECURSIVE Maximum(_)
Maximum(S) ==
  LET x == CHOOSE y \in S : TRUE
  IN IF S = {x} THEN x
     ELSE IF x > Maximum(S \ {x}) THEN x ELSE Maximum(S \ {x})

\* _attempt_json_repair(response, error)
AttemptJsonRepair(response, msg, pos) ==
  IF MissingComma(response, msg, pos)
  THEN Slice(response, 0, pos) \o <<",">> \o Slice(response, pos, Len(response))
  ELSE IF TrailingCommas(response, msg, pos) # {}
  THEN Slice(response, 0, Maximum(TrailingCommas(response, msg, pos)))
         \o Slice(response, Maximum(TrailingCommas(response, msg, pos)) + 1,
                  Len(response))
  ELSE IF /\ SaysExpecting(msg)
          /\ pos >= Len(response) - 5
          /\ MissingClosers(response) # <<>>
  THEN response \o MissingClosers(response)
  ELSE None

\* the longest text of which every spelling is tried
MaxText == 4

\* every text of up to longest characters
Texts(longest) == UNION {[1..n -> JsonChars] : n \in 0..longest}

\* an object holding an array of objects: {"a":[{"a":1}]}
NestedDocument ==
  <<"{", Quote, "a", Quote, ":", "[", "{", Quote, "a", Quote, ":", "1", "}",
    "]", "}">>

\* an object whose members lack a comma: {"a":{}"a":1}
CommaLessDocument ==
  <<"{", Quote, "a", Quote, ":", "{", "}", Quote, "a", Quote, ":", "1", "}">>

\* an object with a comma after its last member: {"a":1, }
TrailingCommaDocument ==
  <<"{", Quote, "a", Quote, ":", "1", ",", " ", "}">>

\* a text cut off after any of its characters
CutOff(text) == {SubSeq(text, 1, n) : n \in 0..Len(text)}

\* a completion as the model sends it: bare, fenced, fenced and padded
Wrappings(text) ==
  {text,
   FenceJson \o text \o Fence,
   <<" ">> \o Fence \o <<" ">> \o text \o <<" ">> \o Fence \o <<" ">>}

\* the completions tried: the short texts and the documents, whole or cut off
Responses(longest) ==
  UNION {Wrappings(text) :
           text \in Texts(longest) \cup CutOff(NestedDocument)
                      \cup CutOff(CommaLessDocument)
                      \cup CutOff(TrailingCommaDocument)}

\* _parse_json_response has been called with a completion
ParserInit ==
  /\ js_pc = "called"
  /\ js_response \in Responses(MaxText)
  /\ js_error = None
  /\ js_repaired = None
  /\ js_result = None
  /\ js_parses = 0
  /\ js_repairs = 0

\* lines 90-100: strip, take the fences off, strip
Unwrap ==
  /\ js_pc = "called"
  /\ js_response' = Strip(Unfenced(Strip(js_response)))
  /\ js_pc' = "parsing"
  /\ UNCHANGED <<js_error, js_repaired, js_result, js_parses, js_repairs,
                 rlvars, clvars, plvars, fsvars, ddvars, slvars>>

\* the JSONDecodeError of a scan that failed
DecodeError(r) == [msg |-> r.msg, pos |-> r.pos]

\* lines 103-105: json.loads(response)
ParseResponse ==
  /\ js_pc = "parsing"
  /\ js_parses' = js_parses + 1
  /\ IF Loads(js_response).ok
     THEN /\ js_pc' = "returned"
          /\ js_result' = Loads(js_response).val
          /\ js_error' = js_error
     ELSE /\ js_pc' = "failed"
          /\ js_error' = DecodeError(Loads(js_response))
          /\ js_result' = js_result
  /\ UNCHANGED <<js_response, js_repaired, js_repairs,
                 rlvars, clvars, plvars, fsvars, ddvars, slvars>>

\* `if repaired:`
Truthy(text) == text # None /\ text # <<>>

\* lines 107-109: repaired = self._attempt_json_repair(response, e)
Repair ==
  /\ js_pc = "failed"
  /\ js_repairs' = js_repairs + 1
  /\ js_repaired' = AttemptJsonRepair(js_response, js_error.msg, js_error.pos)
  /\ js_pc' = IF Truthy(js_repaired') THEN "reparsing" ELSE "logging"
  /\ UNCHANGED <<js_response, js_error, js_result, js_parses,
                 rlvars, clvars, plvars, fsvars, ddvars, slvars>>

\* lines 113-116: json.loads(repaired); a JSONDecodeError is passed over
ParseRepaired ==
  /\ js_pc = "reparsing"
  /\ js_parses' = js_parses + 1
  /\ IF Loads(js_repaired).ok
     THEN /\ js_pc' = "returned"
          /\ js_result' = Loads(js_repaired).val
     ELSE /\ js_pc' = "logging"
          /\ js_result' = js_result
  /\ UNCHANGED <<js_response, js_error, js_repaired, js_repairs,
                 rlvars, clvars, plvars, fsvars, ddvars, slvars>>

\* the error of the second parse
ReraisedInner(e, inner) == inner

\* the bare `raise` of line 137, in the handler of e
Reraised(e, inner) == e

\* lines 118-137: the error is printed and raised
Raise ==
  /\ js_pc = "logging"
  /\ js_pc' = "raised"
  /\ js_result' =
       <<"JSONDecodeError",
         Reraised(js_error,
                  IF Truthy(js_repaired)
                  THEN DecodeError(Loads(js_repaired)) ELSE js_error)>>
  /\ UNCHANGED <<js_response, js_error, js_repaired, js_parses, js_repairs,
                 rlvars, clvars, plvars, fsvars, ddvars, slvars>>

\* every configuration of the limiter; its client is left alone
RateLimiterStart ==
  /\ RateLimiterInit(1..MaxPerSecond, 1..MaxPerMinute)
  /\ ClientInit({MaxRetries})
  /\ PipelineInit
  /\ OutputInit
  /\ StagesIdle
  /\ ParserIdle
  /\ DedupIdle

RateLimiterNext ==
  \/ \E c \in Callers : AcquireCall(c)
  \/ \E c \in Callers : AcquireWake(c)
  \/ Tick

SpecRateLimiter == RateLimiterStart /\ [][RateLimiterNext]_vars

\* every configuration of the client.  In this specification acquire() is the
\* suspension point of line 107 and nothing more: what the limiter does with
\* time is SpecRateLimiter.
ClientStart ==
  /\ RateLimiterInit({MaxPerSecond}, {MaxPerMinute})
  /\ ClientInit(0..MaxRetries)
  /\ PipelineInit
  /\ OutputInit
  /\ StagesIdle
  /\ ParserIdle
  /\ DedupIdle

ClientNext ==
  \/ ClientEnter
  \/ ClientExit
  \/ \E g \in ClientCalls : GenerateCall(g)
  \/ \E g \in ClientCalls : GenerateAdmitted(g)
  \/ \E g \in ClientCalls, o \in Outcomes, j \in 0..JitterSteps :
       PostDone(g, o, j)
  \/ \E g \in ClientCalls : BackoffDone(g)

SpecClient == ClientStart /\ [][ClientNext]_vars

\* one run of the pipeline; limiter and client are those of the stage
\* workers and are not looked into here
PipelineStart ==
  /\ RateLimiterInit({MaxPerSecond}, {MaxPerMinute})
  /\ ClientInit({MaxRetries})
  /\ PipelineInit
  /\ OutputInit
  /\ StagesIdle
  /\ ParserIdle
  /\ DedupIdle

PipelineNext ==
  \/ RunStartRejected
  \/ RunStart
  \/ \E k \in TaskIds : GenerationEnter(k)
  \/ \E k \in TaskIds : \E out \in OutcomesOf("generation", k) : GenerationSettle(k, out)
  \/ GenerationCollect
  \/ Deduplicate
  \/ \E k \in TaskIds : RewriteEnter(k)
  \/ \E k \in TaskIds : \E out \in OutcomesOf("creative", k) : RewriteSettle(k, out)
  \/ RewriteCollect
  \/ \E k \in TaskIds : EvaluateEnter(k)
  \/ \E k \in TaskIds : \E out \in OutcomesOf("evaluation", k) : EvaluateSettle(k, out)
  \/ EvaluationCollect
  \/ \E t \in Ticks : Save(t)

SpecPipeline == PipelineStart /\ [][PipelineNext]_vars

\* run_async called on one DYKPipeline time after time
RerunsNext ==
  \/ RunStartRejected
  \/ RunStart
  \/ \E k \in TaskIds : GenerationEnter(k)
  \/ \E k \in TaskIds : \E out \in OutcomesOf("generation", k) : GenerationSettle(k, out)
  \/ GenerationCollect
  \/ Deduplicate
  \/ \E k \in TaskIds : RewriteEnter(k)
  \/ \E k \in TaskIds : \E out \in OutcomesOf("creative", k) : RewriteSettle(k, out)
  \/ RewriteCollect
  \/ \E k \in TaskIds : EvaluateEnter(k)
  \/ \E k \in TaskIds : \E out \in OutcomesOf("evaluation", k) : EvaluateSettle(k, out)
  \/ EvaluationCollect
  \/ \E t \in Ticks : Save(t)
  \/ RunAgain

SpecReruns == PipelineStart /\ [][RerunsNext]_vars

(***************************************************************************)
(* The stage workers on their client: NumGenCalls tasks of one worker,     *)
(* CreativeRewriter.rewrite or InsightEvaluator.evaluate, each of which    *)
(* calls generate() on the shared client from inside the semaphore block.  *)
(***************************************************************************)
\* what the block makes of the end of generate(): an exception passes through,
\* a text is parsed (and the parse, or results["variations"], may raise)
BlockOutcomes(stage, k, result) ==
  IF result[1] = "text" THEN OutcomesOf(stage, k)
  ELSE {Outcome("exception", 0, k)}

\* lines 71-81 (rewrite) and 70-79 (evaluate): the permit is taken, the prompt
\* is built and generate() runs up to its first suspension
WorkerEnter(stage, k) ==
  /\ EnterBlock(stage, k)
  /\ CallGenerate(k)
  /\ UNCHANGED <<pl_pc, stats, sessions, all_insights, unique_insights,
                 all_variations,
                 evaluated_insights, rlvars, fsvars, ddvars, slvars, jsvars>>

\* lines 82-86 (rewrite) and 80-82 (evaluate): generate() is over, the block
\* is left with a value or an exception
WorkerLeave(stage, k, out) ==
  /\ k \in GenCalls
  /\ gen_pc[k] \in {"returned", "raised"}
  /\ out \in BlockOutcomes(stage, k, gen_result[k])
  /\ LeaveBlock(stage, k, out)
  /\ UNCHANGED <<pl_pc, stats, sessions, all_insights, unique_insights,
                 all_variations,
                 evaluated_insights, rlvars, clvars, fsvars, ddvars, slvars, jsvars>>

Rewrite(k) == WorkerEnter("creative", k)
RewriteDone(k, out) == WorkerLeave("creative", k, out)
Evaluate(k) == WorkerEnter("evaluation", k)
EvaluateDone(k, out) == WorkerLeave("evaluation", k, out)

\* a worker constructed on an open client, its tasks handed to gather
WorkersStart ==
  /\ RateLimiterInit({MaxPerSecond}, {MaxPerMinute})
  /\ ClientInit({MaxRetries})
  /\ \E stage \in {"creative", "evaluation"} :
       /\ semaphore = [s \in Stages |->
                         IF s = stage THEN MaxConcurrent(s) ELSE NoSemaphore]
       /\ task_pc = [s \in Stages |->
                       IF s = stage THEN Pending(NumGenCalls) ELSE <<>>]
       /\ task_out = [s \in Stages |->
                        IF s = stage THEN NoOutcomes(NumGenCalls) ELSE <<>>]
  /\ settle_order = [s \in Stages |-> <<>>]
  /\ sessions = [s \in Stages |-> "none"]
  /\ pl_pc = "start"
  /\ stats = [generation_attempts |-> 0, generation_successes |-> 0,
              generation_failures |-> 0, total_insights_generated |-> 0,
              unique_insights_after_dedup |-> 0,
              creative_attempts |-> 0, creative_successes |-> 0,
              creative_failures |-> 0, total_variations_created |-> 0,
              evaluation_attempts |-> 0, evaluation_successes |-> 0,
              evaluation_failures |-> 0, final_insights |-> 0]
  /\ all_insights = <<>>
  /\ unique_insights = <<>>
  /\ all_variations = <<>>
  /\ evaluated_insights = <<>>
  /\ OutputInit
  /\ StagesIdle
  /\ ParserIdle
  /\ DedupIdle

WorkersNext ==
  \/ ClientEnter
  \/ \E k \in GenCalls : Rewrite(k)
  \/ \E k \in GenCalls : \E out \in OutcomesOf("creative", k) : RewriteDone(k, out)
  \/ \E k \in GenCalls : Evaluate(k)
  \/ \E k \in GenCalls : \E out \in OutcomesOf("evaluation", k) : EvaluateDone(k, out)
  \/ \E g \in GenCalls : GenerateAdmitted(g)
  \/ \E g \in GenCalls, o \in Outcomes, j \in 0..JitterSteps :
       PostDone(g, o, j)
  \/ \E g \in GenCalls : BackoffDone(g)

SpecWorkers == WorkersStart /\ [][WorkersNext]_vars

\* several runs on one output directory, sequential or overlapping
PersistenceStart ==
  /\ RateLimiterInit({MaxPerSecond}, {MaxPerMinute})
  /\ ClientInit({MaxRetries})
  /\ PipelineInit
  /\ OutputInit
  /\ StagesIdle
  /\ ParserIdle
  /\ DedupIdle

PersistenceNext ==
  \/ \E r \in Runs : RunBegin(r)
  \/ \E r \in Runs, t \in Ticks : RunSave(r, t)

SpecPersistence == PersistenceStart /\ [][PersistenceNext]_vars

\* one batch through the deduplicator, for every batch size, weights,
\* embeddings and threshold
DedupStart ==
  /\ RateLimiterInit({MaxPerSecond}, {MaxPerMinute})
  /\ ClientInit({MaxRetries})
  /\ PipelineInit
  /\ OutputInit
  /\ StagesIdle
  /\ ParserIdle
  /\ DedupInit

DedupNext ==
  \/ DedupConstruct
  \/ ComputeEmbeddings
  \/ GetSimilarityMatrix
  \/ \E th \in Thresholds : Cluster(th)

SpecDedup == DedupStart /\ [][DedupNext]_vars

\* the methods of one deduplicator called in any order
DedupCallsStart ==
  /\ RateLimiterInit({MaxPerSecond}, {MaxPerMinute})
  /\ ClientInit({MaxRetries})
  /\ PipelineInit
  /\ OutputInit
  /\ StagesIdle
  /\ ParserIdle
  /\ DedupCallsInit

DedupCallsNext ==
  \/ DedupConstruct
  \/ ComputeEmbeddings
  \/ GetSimilarityMatrix
  \/ \E arg \in Thresholds \cup {NoThreshold}, completes \in BOOLEAN :
       Analyze(arg, completes)
  \/ GetResults
  \/ LoadEmbeddings

SpecDedupCalls == DedupCallsStart /\ [][DedupCallsNext]_vars

\* the analysis and the clustering of one batch whose matrix is built
AnalysisStart ==
  /\ RateLimiterInit({MaxPerSecond}, {MaxPerMinute})
  /\ ClientInit({MaxRetries})
  /\ PipelineInit
  /\ OutputInit
  /\ StagesIdle
  /\ ParserIdle
  /\ AnalysisInit

AnalysisNext ==
  \/ \E orders \in [1..n_greedy_runs -> Orders(dd_n)] : AnalyzeOverall(orders)
  \/ \E th \in Thresholds : Cluster(th)

SpecAnalysis == AnalysisStart /\ [][AnalysisNext]_vars

\* the generate() calls of one run, stage after stage, on the limiters of
\* the stage clients
StagesStart ==
  /\ RateLimiterInit(1..MaxPerSecond, 1..MaxPerMinute)
  /\ ClientInit({MaxRetries})
  /\ PipelineInit
  /\ OutputInit
  /\ StagesInit
  /\ ParserIdle
  /\ DedupIdle

StagesNext ==
  \/ \E stage \in Stages : StageOpen(stage)
  \/ \E o \in Outcomes : StageGenerate(o)
  \/ \E i \in 1..MaxStageCalls, o \in Outcomes : StageRetry(i, o)
  \/ StageTick

SpecStages == StagesStart /\ [][StagesNext]_vars

\* one call of _parse_json_response for every completion tried
ParserStart ==
  /\ RateLimiterInit({MaxPerSecond}, {MaxPerMinute})
  /\ ClientInit({MaxRetries})
  /\ PipelineInit
  /\ OutputInit
  /\ StagesIdle
  /\ ParserInit
  /\ DedupIdle

ParserNext ==
  \/ Unwrap
  \/ ParseResponse
  \/ Repair
  \/ ParseRepaired
  \/ Raise

SpecParser == ParserStart /\ [][ParserNext]_vars

\* the event loop runs every ready task, every sleep ends, time goes on
FairRateLimiter ==
  /\ SpecRateLimiter
  /\ \A c \in Callers : WF_vars(AcquireWake(c))
  /\ WF_vars(Tick)

(***************************************************************************)
(* Claims on the RateLimiter                                               *)
(***************************************************************************)
\* number of admissions younger than span
Recent(span) == Len(Prune(admitted, span))

\* admissions made so far: the calls that are not waiting
Admissions == rl_calls - Cardinality({c \in Callers : rl_pc[c] = "sleep"})

\* C1: at every moment the admissions of the trailing second number at most
\* requests_per_second and those of the trailing minute at most
\* requests_per_minute, whatever the callers do.
C1_WindowCaps ==
  /\ Recent(SecondSpan) <= requests_per_second
  /\ Recent(MinuteSpan) <= requests_per_minute

\* C1 witness: an earlier admission has left the one-second window; one
\* caller has been admitted in this very second, which uses the per-second cap
\* up, while another caller is kept waiting.
C1_Witness ==
  /\ Recent(SecondSpan) = requests_per_second
  /\ Len(admitted) > Recent(SecondSpan)
  /\ admitted[Len(admitted)] = 0
  /\ \E a, b \in Callers : rl_pc[a] = "admitted" /\ rl_pc[b] = "sleep"

\* C2: a caller waiting inside acquire() is eventually admitted.
C2_EventuallyAdmitted ==
  \A c \in Callers : (rl_pc[c] = "sleep") ~> (rl_pc[c] = "admitted")

\* C2 witness: more admissions than the per-minute cap have been made, so a
\* caller that had to wait for the minute window to empty has been admitted.
C2_Witness ==
  /\ Admissions > requests_per_minute
  /\ \E c \in Callers : rl_pc[c] = "admitted"

(***************************************************************************)
(* Claims on OpenRouterClient.generate()                                   *)
(***************************************************************************)
\* C3: a call whose latest POST ended in a 4xx other than 429 has raised the
\* client error for that response; the POST was its last one (attempt + 1 in
\* all) and no backoff sleep followed it, whatever max_retries and attempt.
C3_ClientErrorNotRetried ==
  \A g \in GenCalls :
    (last_outcome[g][1] \in (400..499) \ {429}) =>
      /\ gen_pc[g] = "raised"
      /\ gen_result[g] = <<"Client error", last_outcome[g]>>
      /\ posts[g] = attempt[g] + 1
      /\ sleeps[g] = attempt[g]

\* C3 witness: with retries left, one call met its 404 on the first attempt
\* (one POST) and another one on a later attempt.
C3_Witness ==
  /\ max_retries = MaxRetries
  /\ \E g, h \in GenCalls :
       /\ gen_result[g] = <<"Client error", <<404, "">>>> /\ posts[g] = 1
       /\ gen_result[h] = <<"Client error", <<404, "">>>> /\ posts[h] > 1

RetriedFailures == {<<429, "">>, <<500, "">>, <<0, "timeout">>}

\* C4: a call whose latest POST ended in a 429 or a transient error sleeps and
\* tries again while fewer than max_retries POSTs were made, and after the
\* max_retries-th raises the terminal failure that carries this last error; a
\* call whose POST ended in a completion has returned the text of that very
\* attempt and has issued no POST after it.
C4_RetriedUntilExhausted ==
  \A g \in GenCalls :
    /\ (last_outcome[g] \in RetriedFailures /\ gen_pc[g] # "post") =>
         IF posts[g] < max_retries
         THEN gen_pc[g] = "backoff" /\ sleeps[g] = posts[g]
         ELSE /\ gen_pc[g] = "raised"
              /\ gen_result[g] = <<"Failed after", max_retries, last_outcome[g]>>
              /\ posts[g] = max_retries
    /\ (last_outcome[g] \in RetriedFailures /\ gen_pc[g] = "post") =>
         posts[g] <= max_retries /\ sleeps[g] = posts[g] - 1
    /\ (last_outcome[g] = <<200, "choices">>) =>
         /\ gen_pc[g] = "returned"
         /\ gen_result[g] = <<"text", attempt[g]>>
         /\ posts[g] = attempt[g] + 1

\* C4 witness: one call used up all its attempts on 429s and timeouts, another
\* one returned the completion of a retry.
C4_Witness ==
  /\ max_retries = MaxRetries
  /\ \E g, h \in GenCalls :
       /\ gen_result[g] = <<"Failed after", MaxRetries, <<429, "">>>>
       /\ sleeps[g] = MaxRetries - 1
       /\ gen_result[h] = <<"text", 1>>

\* POST attempts that have not finished
InFlight == Cardinality({g \in GenCalls : gen_pc[g] = "post"})

\* C5: every POST is counted once in total_requests and, once finished, in
\* exactly one of successful_requests and failed_requests: the finished ones
\* and those in flight add up to the total.
C5_CountersConsistent ==
  total_requests = successful_requests + failed_requests + InFlight

\* C5 witness: attempts of every kind have finished and one is in flight.
C5_Witness ==
  /\ successful_requests > 0
  /\ failed_requests > 0
  /\ InFlight > 0

(***************************************************************************)
(* Claims on the semaphores of the stage workers                           *)
(***************************************************************************)
\* calls of generate() that are waiting for the limiter, posting or backing off
CallsUnderWay ==
  Cardinality({g \in GenCalls : gen_pc[g] \in {"acquire", "post", "backoff"}})

\* C6: in CreativeRewriter.rewrite and InsightEvaluator.evaluate at most
\* max_concurrent tasks are inside the guarded body, and so at most that many
\* calls of generate() are under way; every task that has left the body, by
\* return or by exception, has given its permit back, so with no task inside
\* all max_concurrent permits are free.
C6_SemaphoreBound ==
  \A stage \in {"creative", "evaluation"} :
    semaphore[stage] # NoSemaphore =>
      /\ InBody(stage) <= MaxConcurrent(stage)
      /\ CallsUnderWay <= MaxConcurrent(stage)
      /\ semaphore[stage] = MaxConcurrent(stage) - InBody(stage)

\* C6 witness: more tasks than permits were launched; all have settled, one
\* with the text of a retry parsed, one on a generate() that gave up, and the
\* permits are all back.
C6_Witness ==
  \E stage \in {"creative", "evaluation"} :
    /\ Len(task_pc[stage]) > MaxConcurrent(stage)
    /\ \A k \in 1..Len(task_pc[stage]) : task_pc[stage][k] = "done"
    /\ \E k, l \in GenCalls :
         /\ gen_result[k] = <<"Failed after", MaxRetries, <<500, "">>>>
         /\ task_out[stage][k].kind = "exception"
         /\ gen_result[l] = <<"text", 1>>
         /\ task_out[stage][l].kind \in {"list", "criteria"}
    /\ semaphore[stage] = MaxConcurrent(stage)

(***************************************************************************)
(* Claims on DYKPipeline.run_async                                         *)
(***************************************************************************)
\* C7: once run_async has constructed its generator, the generator holds a
\* semaphore of max_concurrent_generations permits and no more generation
\* calls than that are in flight.
C7_GeneratorHoldsSemaphore ==
  pl_pc # "start" =>
    /\ semaphore["generation"] # NoSemaphore
    /\ semaphore["generation"] =
         max_concurrent_generations - InBody("generation")
    /\ InBody("generation") <= max_concurrent_generations

\* every task of the stage has returned or raised
Settled(stage) ==
  \A k \in 1..Len(task_pc[stage]) : task_pc[stage][k] = "done"

\* number of items in the lists the first m tasks returned
RECURSIVE Items(_, _)
Items(outs, m) ==
  IF m = 0 THEN 0
  ELSE Items(outs, m - 1) + (IF outs[m].kind = "list" THEN outs[m].n ELSE 0)

\* C8: past the generation stage every generation task has settled; rewrite
\* tasks exist only once deduplication is over, one per survivor of the
\* complete insight list; evaluation tasks exist only once every rewrite task
\* has settled, one per variation of the complete variation list; the run
\* saves only once every evaluation task has settled.
C8_BatchBarrier ==
  /\ pl_pc \notin {"start", "aborted", "generating"} =>
       /\ Settled("generation")
       /\ Len(task_pc["generation"]) = stats.generation_attempts
  /\ Len(task_pc["creative"]) > 0 =>
       /\ pl_pc \notin {"start", "aborted", "generating", "deduplicating"}
       /\ Len(all_insights) =
            Items(task_out["generation"], Len(task_out["generation"]))
       /\ Len(task_pc["creative"]) = Len(unique_insights)
       /\ stats.unique_insights_after_dedup = Len(unique_insights)
       /\ \A i \in 1..Len(unique_insights) :
            \E j \in 1..Len(all_insights) : unique_insights[i] = all_insights[j]
  /\ Len(task_pc["evaluation"]) > 0 =>
       /\ pl_pc \in {"evaluating", "saving", "persisted"}
       /\ Settled("creative")
       /\ Len(all_variations) =
            Items(task_out["creative"], Len(task_out["creative"]))
       /\ Len(task_pc["evaluation"]) = Len(all_variations)
  /\ pl_pc \in {"saving", "persisted"} =>
       /\ Settled("evaluation")
       /\ Len(evaluated_insights) = Len(task_pc["evaluation"])

\* C8 witness: a run went through all stages with several tasks in each, and
\* in each the last task passed in was not the last to settle.
C8_Witness ==
  /\ pl_pc = "persisted"
  /\ \A stage \in Stages :
       /\ Len(task_pc[stage]) >= 2
       /\ settle_order[stage][Len(task_pc[stage])] # Len(task_pc[stage])

\* number of records of a list that satisfy a test
Count(list, Test(_)) == Cardinality({i \in 1..Len(list) : Test(list[i])})

\* C9: when a stage has been collected, every one of its tasks has settled
\* with its own outcome, raised or not, and every record built from a result
\* belongs to the input the task that produced it was given: an insight
\* carries the cohort and template of its task, a variation the insight its
\* rewrite task was given, an evaluation sits on the variation its task was
\* given; each returned list is there in full.
C9_IsolatedAndPaired ==
  /\ \A stage \in Stages :
       (Len(task_pc[stage]) > 0 /\ pl_pc # "generating"
        /\ (stage = "creative" => pl_pc # "rewriting")
        /\ (stage = "evaluation" => pl_pc # "evaluating")) =>
         \A k \in 1..Len(task_pc[stage]) :
           /\ task_pc[stage][k] = "done"
           /\ task_out[stage][k] \in OutcomesOf(stage, k)
  /\ Len(task_pc["creative"]) > 0 =>
       /\ \A i \in 1..Len(all_insights) :
            /\ all_insights[i].cohort =
                 TaskMetadata[all_insights[i].task].cohort
            /\ all_insights[i].insight_template =
                 TaskMetadata[all_insights[i].task].insight_template
       /\ \A k \in 1..Len(task_out["generation"]) :
            Count(all_insights, LAMBDA r : r.task = k) =
              Items(task_out["generation"], k)
              - Items(task_out["generation"], k - 1)
  /\ Len(task_pc["evaluation"]) > 0 =>
       /\ \A i \in 1..Len(all_variations) :
            all_variations[i].insight_id = all_variations[i].parent
       /\ \A k \in 1..Len(task_out["creative"]) :
            Count(all_variations,
                  LAMBDA r : r.parent = unique_insights[k].insight_id) =
              Items(task_out["creative"], k) - Items(task_out["creative"], k - 1)
  /\ pl_pc \in {"saving", "persisted"} =>
       \A i \in 1..Len(evaluated_insights) :
         /\ evaluated_insights[i].evaluation_of = i
         /\ evaluated_insights[i].evaluation = "criteria"
              <=> task_out["evaluation"][i].kind = "criteria"

\* C9 witness: the first generation task raised and was the last to settle,
\* the other two gave their insights; their rewrites and the evaluations
\* settled in reverse order, and the first evaluation raised.
C9_Witness ==
  /\ pl_pc = "persisted"
  /\ task_out["generation"][1].kind = "exception"
  /\ settle_order["generation"] = <<3, 2, 1>>
  /\ Len(all_insights) = 2
  /\ settle_order["creative"] = <<2, 1>>
  /\ settle_order["evaluation"] = <<2, 1>>
  /\ task_out["evaluation"][1].kind = "exception"
  /\ evaluated_insights[2].evaluation = "criteria"

\* C10: once the generation results have been processed, every generation
\* task has been counted as a success or as a failure.
C10_GenerationAccounted ==
  pl_pc \in {"returned_empty", "deduplicating", "rewriting", "evaluating",
             "saving", "persisted"} =>
    stats.generation_successes + stats.generation_failures
      = stats.generation_attempts

\* the results of the rewrite fan-out have been processed, or the run died
\* while processing them
CreativeCollected == Len(task_pc["creative"]) > 0 /\ pl_pc # "rewriting"

\* C11: once the rewrite results have been processed every rewrite task has
\* been counted as a success or as a failure and the attempts are the
\* deduplicated survivors; once the evaluation results have been processed
\* the same holds of the evaluation tasks and the variations.
C11_StageAccounted ==
  /\ CreativeCollected =>
       /\ stats.creative_attempts = Len(unique_insights)
       /\ stats.creative_successes + stats.creative_failures
            = stats.creative_attempts
  /\ pl_pc \in {"saving", "persisted"} =>
       /\ stats.evaluation_attempts = Len(all_variations)
       /\ stats.evaluation_successes + stats.evaluation_failures
            = stats.evaluation_attempts

\* C11, runs in which no returned "variations" value breaks the result loop
C11_AccountedUnlessCrashed == pl_pc # "crashed" => C11_StageAccounted

(***************************************************************************)
(* Claims on the persisted artifacts                                       *)
(***************************************************************************)
\* the "insights" list of the artifact the followed run has written
Persisted == files[run_file[0]].insights

\* C12: in a run that has persisted, the "insights" list of its artifact has
\* one record per variation created, a variation whose evaluation failed
\* being there with a failed evaluation, and the insight_id of every record
\* is that of exactly one deduplicated survivor.
C12_PersistedComplete ==
  pl_pc = "persisted" =>
    /\ Len(Persisted) = stats.total_variations_created
    /\ Len(Persisted) = Len(all_variations)
    /\ \A i \in 1..Len(Persisted) :
         /\ Persisted[i].variation_id = all_variations[i].variation_id
         /\ task_out["evaluation"][i].kind # "criteria" =>
              Persisted[i].evaluation = "failed"
         /\ Cardinality({j \in 1..Len(unique_insights) :
              unique_insights[j].insight_id = Persisted[i].insight_id}) = 1

\* C12 witness: a persisted artifact with the variations of two survivors, one
\* evaluated and one whose evaluation failed.
C12_Witness ==
  /\ pl_pc = "persisted"
  /\ \E i, j \in 1..Len(Persisted) :
       /\ Persisted[i].evaluation = "failed"
       /\ Persisted[j].evaluation = "criteria"
       /\ Persisted[i].insight_id # Persisted[j].insight_id

(***************************************************************************)
(* Claims on the result shapes and the short-circuits of run_async         *)
(***************************************************************************)
\* the generation results have been processed and the loop was not broken
GenerationCollected ==
  pl_pc \in {"returned_empty", "deduplicating", "rewriting", "evaluating",
             "saving", "persisted"}

\* C13: once the generation results have been processed, the elements of
\* every bare array a generation call returned are in the raw insight set,
\* tagged with the metadata of that call, and the call counts as a success.
C13_BareArrayAccepted ==
  GenerationCollected =>
    /\ \A k \in 1..Len(task_out["generation"]) :
         task_out["generation"][k].kind = "array" =>
           Count(all_insights, LAMBDA r : r.task = k)
             = task_out["generation"][k].n
    /\ stats.generation_successes =
         CountKinds(task_out["generation"], {"list", "array"},
                    Len(task_out["generation"]))

\* C14: the run is in deduplication or behind it, and rewrite tasks exist,
\* only with at least one insight generated; it is in evaluation or behind
\* it, and evaluation tasks exist, only with at least one variation created.
C14_ShortCircuit ==
  /\ pl_pc \in {"deduplicating", "rewriting", "evaluating", "saving",
                "persisted"} => Len(all_insights) > 0
  /\ Len(task_pc["creative"]) > 0 =>
       Len(all_insights) > 0 /\ Len(unique_insights) > 0
  /\ pl_pc \in {"evaluating", "saving", "persisted"} =>
       Len(all_variations) > 0
  /\ Len(task_pc["evaluation"]) > 0 => Len(all_variations) > 0
  /\ (pl_pc = "returned_empty" /\ Len(all_insights) = 0) =>
       /\ unique_insights = <<>>
       /\ Len(task_pc["creative"]) = 0 /\ Len(task_pc["evaluation"]) = 0
  /\ (pl_pc = "returned_empty" /\ Len(all_variations) = 0) =>
       Len(task_pc["evaluation"]) = 0

\* C14 witness: every rewrite settled without a variation, some by raising
\* and some with an empty list, and the run has returned with no evaluation
\* task started.
C14_Witness ==
  /\ pl_pc = "returned_empty"
  /\ Len(task_pc["creative"]) >= 2
  /\ task_out["creative"][1].kind = "exception"
  /\ task_out["creative"][2].kind = "list"
  /\ Len(task_pc["evaluation"]) = 0

\* C15: a run that has returned for want of insights or of variations has
\* left an artifact of its own in the output directory.
C15_EmptyRunLeavesArtifact ==
  pl_pc = "returned_empty" =>
    /\ run_file[0] # NoStamp
    /\ \E stamp \in Stamps : files[stamp].run = 0

\* C16: the artifact a run has written stays that run's: no other run of the
\* same market and output directory, before, during or after it, writes to
\* the same file.
C16_AppendOnly ==
  \A r \in Runs :
    run_pc[r] = "saved" =>
      /\ files[run_file[r]].run = r
      /\ files[run_file[r]].insights = <<r>>

(***************************************************************************)
(* Claims on the deduplication                                             *)
(***************************************************************************)
RECURSIVE SumSizes(_)
SumSizes(S) ==
  IF S = {} THEN 0
  ELSE LET c == CHOOSE x \in S : TRUE
       IN Cardinality(c) + SumSizes(S \ {c})

\* C17: the clusters found for a similarity matrix and a threshold partition
\* the items: every item is in exactly one cluster, no cluster is empty and
\* the sizes add up to the number of items.
C17_ClustersPartition ==
  dd_pc = "clustered" =>
    /\ \A i \in 1..dd_n : Cardinality({c \in clusters : i \in c}) = 1
    /\ \A c \in clusters : c # {} /\ c \subseteq 1..dd_n
    /\ SumSizes(clusters) = dd_n

\* C17 witness: three items in one cluster of which the first and the last
\* are linked only through the second.
C17_Witness ==
  /\ dd_pc = "clustered"
  /\ dd_n = 3
  /\ clusters = {{1, 2, 3}}
  /\ similarity_matrix[1][3] < threshold

\* C18: the survivors are the lowest index of every cluster, one per cluster,
\* in ascending order; items similar at or above the threshold share a
\* cluster, and no two survivors are that similar.
C18_LowestOfEachComponent ==
  dd_pc = "clustered" =>
    /\ Len(unique_indices) = Cardinality(clusters)
    /\ \A c \in clusters :
         \E k \in 1..Len(unique_indices) :
           unique_indices[k] \in c /\ \A x \in c : unique_indices[k] <= x
    /\ \A k \in 1..(Len(unique_indices) - 1) :
         unique_indices[k] < unique_indices[k + 1]
    /\ \A i, j \in 1..dd_n :
         (i < j /\ similarity_matrix[i][j] >= threshold) =>
           \E c \in clusters : i \in c /\ j \in c
    /\ \A a, b \in 1..Len(unique_indices) :
         a < b =>
           similarity_matrix[unique_indices[a]][unique_indices[b]] < threshold

\* C18 witness: of three items the first and the third are duplicates; the
\* first and the second survive.
C18_Witness ==
  /\ dd_pc = "clustered"
  /\ clusters = {{1, 3}, {2}}
  /\ unique_indices = <<1, 2>>

\* C19: once the rewrite results have been processed, every rewrite counted
\* as a success has contributed num_variations variation records, and
\* total_variations_created is num_variations times creative_successes.
C19_VariationsPerSurvivor ==
  (CreativeCollected /\ pl_pc # "crashed") =>
    /\ \A k \in 1..Len(task_out["creative"]) :
         task_out["creative"][k].kind = "list" =>
           Count(all_variations,
                 LAMBDA r : r.insight_id = unique_insights[k].insight_id)
             = num_variations
    /\ stats.total_variations_created
         = num_variations * stats.creative_successes

\* the weighted similarity matrix has been computed
Compared == dd_pc \in {"compared", "clustered"}

\* C20: for weights the constructor accepts, the weighted similarity matrix
\* is symmetric, is 1.0 on its diagonal and has all its values from 0 to 1.0.
C20_SimilarityWellFormed ==
  Compared =>
    \A i, j \in 1..dd_n :
      /\ similarity_matrix[i][j] = similarity_matrix[j][i]
      /\ similarity_matrix[i][i] = One
      /\ similarity_matrix[i][j] >= 0
      /\ similarity_matrix[i][j] <= One

\* C20, without the range: symmetric and 1.0 on the diagonal
C20_SymmetricUnitDiagonal ==
  Compared =>
    \A i, j \in 1..dd_n :
      /\ similarity_matrix[i][j] = similarity_matrix[j][i]
      /\ similarity_matrix[i][i] = One

\* the sum of the three component weights
WeightSum(w) == w["hook"] + w["explanation"] + w["action"]

\* C21: weights whose sum is not 1.0 make the constructor raise and leave no
\* deduplicator to call; the weights given are stored as they are, never
\* renormalized; omitted weights become hook 0.4, action 0.4, explanation
\* 0.2 and are accepted.
C21_WeightPolicy ==
  [][/\ (dd_pc = "new" /\ dd_pc' # "new") =>
          /\ weights # NoWeightsGiven => weights' = weights
          /\ weights = NoWeightsGiven =>
               /\ weights'["hook"] = DefaultHook
               /\ weights'["action"] = DefaultAction
               /\ weights'["explanation"] = DefaultExplanation
               /\ dd_pc' = "constructed"
          /\ dd_pc' = IF WeightSum(weights') = WeightUnit
                      THEN "constructed" ELSE "rejected"
     /\ dd_pc = "rejected" => UNCHANGED ddvars]_vars

\* weights summing to 0.8 were given and the constructor raised
C21_Witness ==
  /\ dd_pc = "rejected"
  /\ WeightSum(weights) = WeightUnit - 1
  /\ weights["hook"] > 0 /\ weights["action"] > 0 /\ weights["explanation"] > 0

\* C22: get_similarity_matrix() without embeddings, analyze() without a
\* threshold from the constructor or the call, and get_results() before any
\* analyze() has returned each raise, and the failed call leaves no cached
\* matrix and no results behind.
C22_OrderingErrorsFailFast ==
  [][/\ (GetSimilarityMatrix /\ cosines = NoEmbeddings) =>
          /\ dd_raised' = "ValueError"
          /\ similarity_matrix' = NoMatrix
          /\ dd_results' = NoResults
     /\ \A completes \in BOOLEAN :
          (Analyze(NoThreshold, completes) /\ threshold = NoThreshold) =>
            /\ dd_raised' = "ValueError"
            /\ similarity_matrix' = similarity_matrix
            /\ dd_results' = dd_results
            /\ threshold' = NoThreshold
     /\ (GetResults /\ ~dd_analyzed) =>
          /\ dd_raised' = "ValueError"
          /\ similarity_matrix' = similarity_matrix
          /\ dd_results' = NoResults]_vars

\* a call has failed on a deduplicator that has neither embeddings nor a
\* threshold, and nothing is cached
C22_Witness ==
  /\ Constructed
  /\ dd_raised = "ValueError"
  /\ cosines = NoEmbeddings
  /\ threshold = NoThreshold
  /\ similarity_matrix = NoMatrix
  /\ dd_results = NoResults

(***************************************************************************)
(* Claims on what the records carry                                        *)
(***************************************************************************)
\* the fields of `r`, among `fields`, have the values they have in `of`
SameOn(r, of, fields) == \A f \in fields : r[f] = of[f]

GenerationFields ==
  {"insight_id", "cohort", "insight_template", "generation_model",
   "generated_at"}

\* C23: every insight the generation stage forwards carries insight_id,
\* cohort, insight_template, generation_model and generated_at, the cohort and
\* the template being those of the task that produced it; every persisted
\* record carries the values of the survivor it was rewritten from, and
\* creative_model, created_at, evaluation_model and evaluated_at as well.
C23_Traceable ==
  /\ \A i \in 1..Len(all_insights) :
       /\ GenerationFields \subseteq DOMAIN all_insights[i]
       /\ all_insights[i].insight_id = i
       /\ all_insights[i].cohort = TaskMetadata[all_insights[i].task].cohort
       /\ all_insights[i].insight_template =
            TaskMetadata[all_insights[i].task].insight_template
       /\ all_insights[i].generation_model = "generation_model"
       /\ all_insights[i].generated_at = "generation_timestamp"
  /\ pl_pc = "persisted" =>
       \A i \in 1..Len(Persisted) :
         /\ \E j \in 1..Len(unique_insights) :
              /\ unique_insights[j].insight_id = Persisted[i].parent
              /\ SameOn(Persisted[i], unique_insights[j], GenerationFields)
         /\ Persisted[i].creative_model = "creative_model"
         /\ Persisted[i].created_at = "creative_timestamp"
         /\ Persisted[i].evaluation_model = "evaluation_model"
         /\ Persisted[i].evaluated_at = "evaluation_timestamp"

\* C23 witness: an artifact holding records of two cohorts
C23_Witness ==
  /\ pl_pc = "persisted"
  /\ \E i, j \in 1..Len(Persisted) :
       /\ Persisted[i].cohort # Persisted[j].cohort
       /\ Persisted[i].cohort = TaskMetadata[1].cohort

(***************************************************************************)
(* Claims on the client's session                                          *)
(***************************************************************************)
\* a task of the stage has not settled yet
Unsettled(stage) ==
  \E k \in 1..Len(task_pc[stage]) : task_pc[stage][k] # "done"

\* run_async is over, by return or by exception, or only has to save
StagesOver ==
  pl_pc \in {"aborted", "crashed", "returned_empty", "saving", "persisted"}

\* C24: the session of a stage's client is open while any task of the stage
\* has yet to settle, so it is closed only after all of them have and no
\* task posts on a closed session; it is closed on every way out of the
\* scope, the exception out of the generation scope included; and the
\* session of a stage is closed before that of the next stage is opened.
C24_SessionScoped ==
  /\ \A s \in Stages : Unsettled(s) => sessions[s] = "open"
  /\ sessions["creative"] # "none" => sessions["generation"] = "closed"
  /\ sessions["evaluation"] # "none" => sessions["creative"] = "closed"
  /\ StagesOver => \A s \in Stages : sessions[s] # "open"
  /\ pl_pc = "aborted" => sessions["generation"] = "closed"

\* C24 witness: a run that has persisted with the three sessions closed
C24_Witness ==
  /\ pl_pc = "persisted"
  /\ \A s \in Stages : sessions[s] = "closed" /\ Len(task_pc[s]) > 0

\* C25: generate() called while the client is not inside its scope, before
\* __aenter__ or after __aexit__, raises RuntimeError at once: it does not go
\* on to the rate limiter, issues no POST and changes no counter.
C25_OutsideScopeRaises ==
  [][\A g \in GenCalls :
       (gen_pc[g] = "idle" /\ gen_pc'[g] # "idle" /\ session # "open") =>
         /\ gen_pc'[g] = "raised"
         /\ gen_result'[g] = <<"RuntimeError">>
         /\ total_requests' = total_requests
         /\ failed_requests' = failed_requests
         /\ posts'[g] = 0]_vars

\* a call made after __aexit__ has counted requests and failures for
\* session.post() calls that raised on the closed session
C25_Witness ==
  \E g \in GenCalls :
    /\ session = "closed"
    /\ gen_result[g] = <<"Failed after", max_retries, SessionClosed>>
    /\ posts[g] = max_retries
    /\ total_requests = max_retries
    /\ failed_requests = max_retries

(***************************************************************************)
(* The rate limiter across the stages of a run                             *)
(***************************************************************************)
\* the ages of the admissions the limiter l made in the last minute
AdmittedBy(l) ==
  [j \in 1..Len(SelectSeq(sl_admitted, LAMBDA a : a.limiter = l)) |->
     SelectSeq(sl_admitted, LAMBDA a : a.limiter = l)[j].age]

\* the number of entries of seq younger than span
Within(seq, span) == Len(SelectSeq(seq, LAMBDA age : age < span))

\* C26: every stage client holds the limiter the pipeline constructed, so
\* the admissions of the last minute, whatever stage made them, are the
\* entries of that one limiter's minute window, and over all stages at most
\* requests_per_second of them fall in the last second and at most
\* requests_per_minute in the last minute.
C26_OneLimiterAcrossStages ==
  /\ \A s \in Stages :
       sl_limiter[s] # NoLimiter => sl_limiter[s] = PipelineLimiter
  /\ \A j \in 1..Len(sl_admitted) : sl_admitted[j].limiter = PipelineLimiter
  /\ AdmittedBy(PipelineLimiter) =
       Prune(sl_windows[PipelineLimiter].minute, MinuteSpan)
  /\ Within(AdmittedBy(PipelineLimiter), SecondSpan) <= requests_per_second
  /\ Within(AdmittedBy(PipelineLimiter), MinuteSpan) <= requests_per_minute

\* the creative stage has opened while the admissions the generation stage
\* made this second fill the per-second window: the first rewrite call waits
C26_Witness ==
  /\ sl_stage = "creative"
  /\ sl_limiter["creative"] = PipelineLimiter
  /\ sl_calls < MaxStageCalls
  /\ Len(sl_admitted) = requests_per_second
  /\ \A j \in 1..Len(sl_admitted) :
       sl_admitted[j].stage = "generation" /\ sl_admitted[j].age < SecondSpan
  /\ ~CanProceed(Prune(sl_windows[PipelineLimiter].minute, MinuteSpan),
                 Prune(sl_windows[PipelineLimiter].second, SecondSpan),
                 requests_per_minute, requests_per_second)

\* C27: the POSTs sent in the last second, first attempts and retries of
\* all stages together, number at most requests_per_second, and those of
\* the last minute at most requests_per_minute.
C27_PostsWithinLimits ==
  /\ Within(sl_posts, SecondSpan) <= requests_per_second
  /\ Within(sl_posts, MinuteSpan) <= requests_per_minute

\* a retry has been posted
C27_Witness ==
  /\ Len(sl_posts) > Len(sl_admitted)
  /\ Within(sl_posts, MinuteSpan) > requests_per_minute

(***************************************************************************)
(* The parsers of the stage workers                                        *)
(***************************************************************************)
\* the first json.loads has been called
Parsed == js_pc \notin {"called", "parsing"}

\* C28: the direct parse comes first and, when it succeeds, its value is
\* returned and no repair is called; a repair is called only after a parse
\* has failed, at most once, and at most one more parse follows it; when no
\* rule repairs the text or the second parse fails, the error of the first
\* parse is raised, and nothing is returned otherwise.
C28_ParseRepairProtocol ==
  /\ js_parses <= 2 /\ js_repairs <= 1
  /\ js_repairs = 1 => (js_parses >= 1 /\ ~Loads(js_response).ok)
  /\ js_parses = 2 => (js_repairs = 1 /\ Truthy(js_repaired))
  /\ (Parsed /\ Loads(js_response).ok) =>
       /\ js_pc = "returned"
       /\ js_parses = 1 /\ js_repairs = 0 /\ js_repaired = None
       /\ js_result = Loads(js_response).val
  /\ js_pc = "returned" =>
       \/ js_repairs = 0 /\ Loads(js_response).ok
            /\ js_result = Loads(js_response).val
       \/ js_repairs = 1 /\ js_parses = 2 /\ Loads(js_repaired).ok
            /\ js_result = Loads(js_repaired).val
  /\ js_pc = "raised" =>
       /\ js_result = <<"JSONDecodeError", DecodeError(Loads(js_response))>>
       /\ js_repairs = 1
       /\ \/ ~Truthy(js_repaired) /\ js_parses = 1
          \/ Truthy(js_repaired) /\ js_parses = 2 /\ ~Loads(js_repaired).ok
  /\ js_pc \notin {"returned", "raised"} => js_result = None

\* the repaired text failed to parse with another error than the response,
\* and the error of the response has been raised
C28_Witness ==
  /\ js_pc = "raised"
  /\ js_parses = 2
  /\ DecodeError(Loads(js_repaired)) # js_error
  /\ js_result = <<"JSONDecodeError", js_error>>

\* the closers a cut-off text may have lost
MaxClosers == 3

Closers == UNION {[1..n -> {"}", "]"}] : n \in 1..MaxClosers}

\* C29: when the response is a document that lost only its final closing
\* brackets and braces, the repair appends exactly them, and the call
\* returns the value of the whole document.
C29_MissingClosersRepaired ==
  js_repairs = 1 =>
    \A c \in Closers :
      Loads(js_response \o c).ok =>
        /\ js_repaired = js_response \o c
        /\ js_pc \in {"returned", "raised"} =>
             /\ js_pc = "returned"
             /\ js_result = Loads(js_response \o c).val

\* the object holding an array of objects, cut off before its three closers,
\* has been given a bracket and two braces and has failed to parse again
C29_Witness ==
  /\ js_pc = "raised"
  /\ js_response \o <<"}", "]", "}">> = NestedDocument
  /\ js_repaired = js_response \o <<"]", "}", "}">>

(***************************************************************************)
(* The ends of generate()                                                  *)
(***************************************************************************)
\* C30: whatever max_retries is and however the attempts end, a call of
\* generate() that has ended has raised or has returned the text of an
\* attempt that succeeded.
C30_TextOrRaise ==
  \A g \in GenCalls :
    gen_pc[g] = "returned" =>
      /\ gen_result[g][1] = "text"
      /\ last_outcome[g] = <<200, "choices">>
      /\ posts[g] >= 1

\* with max_retries = 0 a call has returned None without one POST
C30_Witness ==
  \E g \in GenCalls :
    /\ max_retries = 0
    /\ gen_pc[g] = "returned"
    /\ gen_result[g] = <<"None">>
    /\ posts[g] = 0

\* the counters of one stage, as the report at the end of the run reads them
Counted(stage) ==
  IF stage = "generation"
  THEN <<stats.generation_attempts, stats.generation_successes,
         stats.generation_failures>>
  ELSE IF stage = "creative"
  THEN <<stats.creative_attempts, stats.creative_successes,
         stats.creative_failures>>
  ELSE <<stats.evaluation_attempts, stats.evaluation_successes,
         stats.evaluation_failures>>

\* run_async has returned to its caller
RunEnded == pl_pc \in {"returned_empty", "persisted"}

\* C31: at the end of every run_async call on one DYKPipeline, a second and
\* later call included, no stage reports more successes and failures
\* together than attempts.  Violated: the attempts are assigned in each run
\* while the successes and failures are added to those of the runs before.
C31_CountersOfThisRun ==
  RunEnded =>
    \A stage \in Stages :
      Counted(stage)[2] + Counted(stage)[3] <= Counted(stage)[1]

\* C31: a second run has ended on the pipeline whose first run ended with
\* every generation task counted
C31_Witness ==
  /\ RunEnded
  /\ stats.generation_successes + stats.generation_failures
       > stats.generation_attempts

\* C31: in the first run_async call on a DYKPipeline no stage reports more
\* successes and failures together than attempts (checked under
\* SpecPipeline, where run_async is called once)
C31_FirstRunBounded ==
  \A stage \in Stages :
    Counted(stage)[2] + Counted(stage)[3] <= Counted(stage)[1]

\* C32: whatever calls came before, get_similarity_matrix() returns (and
\* analyze() uses) the weighted similarity of the embeddings computed or
\* loaded last.  Violated: the matrix cached before load_embeddings() is
\* returned after it.
C32_MatrixOfCurrentEmbeddings ==
  (Constructed /\ cosines # NoEmbeddings) =>
    MatrixNow = WeightedSimilarity(weights, cosines, dd_n)

\* C32: embeddings were loaded over a deduplicator whose matrix was cached
\* from other embeddings, and analyze() has reported on the cached matrix
C32_Witness ==
  /\ dd_pc = "compared"
  /\ dd_analyzed
  /\ similarity_matrix # NoMatrix
  /\ similarity_matrix # WeightedSimilarity(weights, cosines, dd_n)
  /\ dd_results # NoResults
  /\ dd_results # AnalysisOf(WeightedSimilarity(weights, cosines, dd_n), dd_n,
                             dd_results.threshold)

\* C32: as long as load_embeddings() is not called, the cached matrix is
\* that of the embeddings (checked under SpecDedup, where the embeddings
\* are computed once)
C32_FreshWithoutLoad ==
  similarity_matrix # NoMatrix =>
    similarity_matrix = WeightedSimilarity(weights, cosines, dd_n)

\* the insights the pipeline drops: those that are not the lowest index of
\* their cluster
Removed == {i \in 1..dd_n : \A k \in 1..Len(unique_indices) : unique_indices[k] # i}

\* the survivor kept for the cluster of item i
SurvivorOf(i) == Min(CHOOSE c \in clusters : i \in c)

\* C33: every insight the connected-components deduplication removes has
\* similarity >= threshold to the survivor of its cluster.  Violated: a
\* cluster is closed under chains of similar pairs, and the last item of a
\* chain need not resemble the first.
C33_RemovedResemblesSurvivor ==
  dd_pc = "clustered" =>
    \A i \in Removed : similarity_matrix[SurvivorOf(i)][i] >= threshold

\* C33: of three insights the second resembles the first and the third
\* resembles the second only; only the first survives
C33_Witness ==
  /\ dd_pc = "clustered"
  /\ dd_n = 3
  /\ unique_indices = <<1>>
  /\ Removed = {2, 3}
  /\ similarity_matrix[1][2] >= threshold
  /\ similarity_matrix[2][3] >= threshold
  /\ similarity_matrix[1][3] < threshold

\* C33: every removed insight has similarity >= threshold to some other
\* insight of its cluster (holds under SpecDedup)
C33_RemovedResemblesSome ==
  dd_pc = "clustered" =>
    \A i \in Removed :
      \E c \in clusters :
        /\ i \in c
        /\ \E j \in c \ {i} :
             similarity_matrix[Min({i, j})][Max({i, j})] >= threshold

\* C34: no caller holds the lock of the limiter while it sleeps: between the
\* passes the lock is free, so next to a caller waiting for capacity every
\* other caller can enter the critical section, be it to start an acquire()
\* or to wake from its own sleep.
C34_LockFreeWhileWaiting ==
  /\ \A c \in Callers : rl_pc[c] = "sleep" => lock # c
  /\ \A c \in Callers :
       rl_pc[c] = "sleep" =>
         \A d \in Callers \ {c} :
           /\ rl_pc[d] = "sleep" => ENABLED AcquireWake(d)
           /\ (rl_pc[d] \in {"idle", "admitted"} /\ rl_calls < MaxCalls) =>
                ENABLED AcquireCall(d)

\* C34: two callers are asleep at once, each having passed through the
\* critical section while the other waited
C34_Witness ==
  \E c, d \in Callers :
    /\ c # d
    /\ rl_pc[c] = "sleep"
    /\ rl_pc[d] = "sleep"
    /\ lock = NoHolder

\* the items of a sequence
RangeOf(seq) == {seq[k] : k \in 1..Len(seq)}

\* the items kept before position k of the order of a greedy run
KeptBefore(run, k) ==
  {run.order[m] : m \in 1..(k - 1)} \cap RangeOf(run.kept_indices)

\* the kept-counts of the greedy runs
KeptCounts == [r \in 1..Len(greedy_runs) |-> Len(greedy_runs[r].kept_indices)]

SumOfSquares(results) ==
  SumTo([r \in 1..Len(results) |-> results[r] * results[r]], Len(results))

\* C35: each of the n_greedy_runs greedy runs visits a permutation of all
\* items and keeps an item exactly when it is below the threshold with every
\* item kept before it; the kept items are pairwise below the threshold,
\* every item not kept is at or above it with a kept one, and the reported
\* mean and standard deviation are those of the kept-counts.  The threshold
\* is the one the analysis ran with, which the report records.
C35_GreedyRuns ==
  greedy_runs # <<>> =>
    /\ Len(greedy_runs) = n_greedy_runs
    /\ \A r \in 1..Len(greedy_runs) :
         LET run == greedy_runs[r]
             kept == RangeOf(run.kept_indices)
         IN /\ Len(run.order) = dd_n
            /\ RangeOf(run.order) = 1..dd_n
            /\ \A k \in 1..dd_n :
                 run.order[k] \in kept <=>
                   \A x \in KeptBefore(run, k) :
                     similarity_matrix[run.order[k]][x] < dd_results.threshold
            /\ \A a, b \in kept :
                 a # b => similarity_matrix[a][b] < dd_results.threshold
            /\ \A i \in (1..dd_n) \ kept :
                 \E a \in kept : similarity_matrix[i][a] >= dd_results.threshold
            /\ Len(run.kept_indices) = Cardinality(kept)
    /\ LET R == n_greedy_runs
           S == SumTo(KeptCounts, R)
       IN /\ overall_stats.greedy_unique_mean[1] * R
               = S * overall_stats.greedy_unique_mean[2]
          /\ overall_stats.greedy_unique_mean[2] > 0
          /\ overall_stats.greedy_unique_std_squared[1] * R * R
               = (R * SumOfSquares(KeptCounts) - S * S)
                   * overall_stats.greedy_unique_std_squared[2]
          /\ overall_stats.greedy_unique_std_squared[2] > 0

\* C35: of three items the second resembles both others, which do not
\* resemble each other; one run met the second first and kept it alone, the
\* other kept the first and the third, and the deviation is not zero
C35_Witness ==
  /\ dd_n = 3
  /\ greedy_runs # <<>>
  /\ greedy_runs[1].kept_indices = <<2>>
  /\ greedy_runs[2].kept_indices = <<1, 3>>
  /\ similarity_matrix[1][3] < dd_results.threshold
  /\ overall_stats.greedy_unique_mean = <<3, 2>>
  /\ overall_stats.greedy_unique_std_squared[1] > 0

\* C36: for a symmetric matrix over n >= 1 items and any threshold every
\* greedy run keeps at least as many items as there are connected
\* components and at most n, so 1 <= cluster_count <= greedy_unique_mean <=
\* total_insights; and the pipeline keeps at least one survivor and at most
\* as many as there are insights.
C36_CountsOrdered ==
  /\ greedy_runs # <<>> =>
       /\ \A r \in 1..Len(greedy_runs) :
            /\ overall_stats.cluster_count <= Len(greedy_runs[r].kept_indices)
            /\ Len(greedy_runs[r].kept_indices) <= dd_n
       /\ 1 <= overall_stats.cluster_count
       /\ overall_stats.cluster_count * overall_stats.greedy_unique_mean[2]
            <= overall_stats.greedy_unique_mean[1]
       /\ overall_stats.greedy_unique_mean[1]
            <= overall_stats.total_insights * overall_stats.greedy_unique_mean[2]
       /\ overall_stats.total_insights = dd_n
  /\ dd_pc = "clustered" =>
       /\ 1 <= Len(unique_indices)
       /\ Len(unique_indices) <= dd_n

\* C36: three items in one cluster of which a greedy run kept two, the
\* mean lying strictly between the cluster count and the number of items,
\* and the pipeline kept one survivor
C36_Witness ==
  /\ dd_n = 3
  /\ dd_pc = "clustered"
  /\ greedy_runs # <<>>
  /\ overall_stats.cluster_count = 1
  /\ \E r \in 1..Len(greedy_runs) : Len(greedy_runs[r].kept_indices) = 2
  /\ overall_stats.greedy_unique_mean[1]
       < 3 * overall_stats.greedy_unique_mean[2]
  /\ Len(unique_indices) = 1

\* the other items at or above the threshold of the analysis with item i
OthersAlike(i) ==
  {j \in (1..dd_n) \ {i} : similarity_matrix[i][j] >= dd_results.threshold}

\* what C37 states of the duplicate counts of an analysis
CountsAreOthersAlike ==
  /\ \A i \in 1..dd_n :
       /\ overall_stats.duplicate_counts[i] = Cardinality(OthersAlike(i))
       /\ overall_stats.duplicate_counts[i] \in 0..(dd_n - 1)
  /\ SumTo(overall_stats.duplicate_counts, dd_n)
       = 2 * Cardinality(ThresholdEdges(similarity_matrix, dd_n,
                                        dd_results.threshold))

\* C37: for every matrix and every threshold the duplicate count of item i
\* is the number of other items at or above the threshold with it; each
\* count lies in 0..n-1 and the counts sum to twice the number of edges of
\* the threshold graph.  Violated: one is subtracted for the item itself
\* whether or not the item is at or above the threshold with itself.
C37_DuplicateCounts ==
  overall_stats # NoResults => CountsAreOthersAlike

\* C37: the analysis ran with a threshold above the similarity of an item
\* with itself and every count is -1
C37_Witness ==
  /\ overall_stats # NoResults
  /\ dd_results.threshold > One
  /\ \A i \in 1..dd_n :
       /\ similarity_matrix[i][i] < dd_results.threshold
       /\ overall_stats.duplicate_counts[i] = 0 - 1

\* C37: whenever every item is at or above the threshold with itself, the
\* counts are as stated (holds under SpecAnalysis)
C37_CountsUpToDiagonal ==
  (/\ overall_stats # NoResults
   /\ \A i \in 1..dd_n : similarity_matrix[i][i] >= dd_results.threshold)
    => CountsAreOthersAlike

\* C38: the sleep after the failed attempt with index a that is not the last
\* allowed one lasts from 2^a to 1.5 x 2^a seconds, and a call that is not
\* in a backoff (its attempt succeeded, was refused with a 4xx or was the
\* last allowed) has no wait; every sleep follows a failed attempt that may
\* be retried.
C38_BackoffSchedule ==
  \A g \in GenCalls :
    /\ gen_pc[g] = "backoff" =>
         /\ WaitUnit * (2 ^ attempt[g]) <= wait_time[g]
         /\ 2 * wait_time[g] <= 3 * WaitUnit * (2 ^ attempt[g])
         /\ attempt[g] < max_retries - 1
         /\ last_outcome[g] # <<200, "choices">>
         /\ ~IsClientError(last_outcome[g])
    /\ gen_pc[g] # "backoff" => wait_time[g] = 0
    /\ gen_pc[g] = "raised" => sleeps[g] = attempt[g]

\* C38: a call sleeps the longest wait after its second failed attempt,
\* three seconds, while another sleeps the shortest after its first, one
\* second
C38_Witness ==
  \E g, h \in GenCalls :
    /\ gen_pc[g] = "backoff"
    /\ attempt[g] = 1
    /\ wait_time[g] = 3 * WaitUnit
    /\ gen_pc[h] = "backoff"
    /\ attempt[h] = 0
    /\ wait_time[h] = WaitUnit

====
